---------------------------- MODULE Spec2Model ----------------------------
(***************************************************************************)
(* A model of rieMiner's prime constellation search engine (miner.cpp):    *)
(* target alignment on the primorial, the per-prime offsets computed by    *)
(* the mod workers, the segmented sieve (dense, sparse and once-only       *)
(* strata), candidate extraction, Fermat verification, and the master /    *)
(* worker schedule over the three queues.                                  *)
(*                                                                         *)
(* The sizes of the program are far beyond explicit-state checking (a      *)
(* sieve of 2^24 bits, a primorial of 40 primes).  The size constants      *)
(* below keep the source's names and relations and carry smaller values;   *)
(* each says which value the source gives it.                              *)
(***************************************************************************)
EXTENDS Integers, Sequences, FiniteSets, TLC

(***************************************************************************)
(* Program constants.                                                      *)
(***************************************************************************)
\* miner.cpp:62 (24 in the source)
riecoin_sieveBits == 4
\* miner.cpp:68 (max_increments = 2^29 in the source; its exponent)
max_incrementsBits == 5
\* miner.cpp:17 (parameters.primorialNumber, 40 in the source)
primorialNumber == 6
\* miner.cpp:71
primorial_offset == 16057
\* miner.cpp:74 (16384 in the source)
denseLimit == 20
\* miner.cpp:175 (PENDING_SIZE, 16 in the source)
PENDING_SIZE == 4
\* miner.cpp:24 (WORK_INDEXES, 64 in the source)
WORK_INDEXES == 2
\* miner.cpp:64, 515, 541 (the width of a sieve word: uint64_t, 64 in the source)
WordBits == 8
\* miner.cpp:443 (nPrimes/128 in the source)
ModChunks == 4
\* miner.cpp:482 (the tail slack of the sparse partition, 1000 in the source)
TailSlack == 1
\* miner.cpp:218 (OFFSET_STACK_SIZE, 16384 in the source)
OFFSET_STACK_SIZE == 8
\* miner.cpp:352 (limbs copied into nOffset: 32/8)
OffsetLimbs == 4
\* miner.cpp:353 (bits of one limb: uint64_t, 64 in the source)
LimbBits == 7

(***************************************************************************)
(* Bounds of the model.                                                    *)
(***************************************************************************)
\* the prime table holds the primes below sieveMax (miningInit's argument)
sieveMax == 48
\* targets are q*primorial + d, q in 0..MaxQuot
MaxQuot == 3
\* arguments.tuples, the share threshold
tuplesThreshold == 2
\* miningInit's argument threads
threads == 8
\* calls of miningProcess on the master
MaxBlocks == 2
\* threads that call miningProcess
NumThreads == 3

RECURSIVE Pow2(_)
Pow2(k) == IF k = 0 THEN 1 ELSE 2 * Pow2(k - 1)

riecoin_sieveSize == Pow2(riecoin_sieveBits)
riecoin_sieveWords == riecoin_sieveSize \div WordBits
max_increments == Pow2(max_incrementsBits)
maxiter == max_increments \div riecoin_sieveSize

primeTupleOffset == <<0, 4, 2, 4, 2, 4>>

\* the cumulative bias of constellation member f (0-based): 0,4,6,10,12,16
RECURSIVE cumulativeBias(_)
cumulativeBias(f) ==
    IF f = 0 THEN primeTupleOffset[1]
    ELSE cumulativeBias(f - 1) + primeTupleOffset[f + 1]

Biases == 0..5

(***************************************************************************)
(* miningInit: the prime table, the primorial, the inverses, the strata.   *)
(***************************************************************************)
\* the sieve of Eratosthenes of miningInit, by its result
IsPrime(n) == n >= 2 /\ \A d \in 2..(n - 1) : d * d > n \/ n % d # 0

RECURSIVE PrimesFrom(_)
PrimesFrom(n) ==
    IF n >= sieveMax THEN <<>>
    ELSE IF IsPrime(n) THEN <<n>> \o PrimesFrom(n + 1) ELSE PrimesFrom(n + 1)

\* miner.parameters.primes, 0-based in the source: prime index i is primes[i + 1]
primes == PrimesFrom(2)
nPrimes == Len(primes)
Prime(i) == primes[i + 1]

RECURSIVE PrimorialOf(_)
PrimorialOf(k) == IF k = 0 THEN 1 ELSE Prime(k - 1) * PrimorialOf(k - 1)

primorial == PrimorialOf(primorialNumber)

\* mpz_invert(z_tmp, primorial, z_p): the inverse of the primorial modulo
\* primes[i]; none exists for i < primorialNumber, where the source's result
\* is never read
inverts(i) ==
    LET p == Prime(i)
    IN  IF \E x \in 0..(p - 1) : ((primorial % p) * x) % p = 1
        THEN CHOOSE x \in 0..(p - 1) : ((primorial % p) * x) % p = 1
        ELSE 0

startingPrimeIndex == primorialNumber

n_dense ==
    Cardinality({i \in primorialNumber..(nPrimes - 1) : Prime(i) < denseLimit})
n_sparse ==
    Cardinality({i \in primorialNumber..(nPrimes - 1) :
                   Prime(i) >= denseLimit /\ Prime(i) < max_increments})

\* the sieved primes: every prime index from primorialNumber on
SievedIdx == primorialNumber..(nPrimes - 1)
ResidentIdx == {i \in SievedIdx : Prime(i) < max_increments}
OnceOnlyIdx == {i \in SievedIdx : Prime(i) >= max_increments}

(***************************************************************************)
(* miningProcess, lines 424-431: the remainder on the primorial.           *)
(***************************************************************************)
\* mpz_tdiv_r: the remainder of the truncating division (sign of a)
mpz_tdiv_r(a, b) == IF a >= 0 THEN a % b ELSE 0 - ((0 - a) % b)
mpz_abs(a) == IF a >= 0 THEN a ELSE 0 - a

RemainderPrimorialBad(target) ==
    mpz_abs(mpz_tdiv_r(target, primorial)) + primorial_offset

RemainderPrimorial(target) ==
    LET r1 == mpz_abs(mpz_tdiv_r(target, primorial))
        r2 == primorial - r1
        r3 == mpz_abs(mpz_tdiv_r(r2, primorial))
    IN  r3 + primorial_offset

(***************************************************************************)
(* update_remainders, lines 212-257.                                       *)
(***************************************************************************)
\* one step of the running remainder (lines 233-235)
RemainderStep(r, f, p) ==
    LET r1 == r + primeTupleOffset[f + 1]
    IN  IF r1 > p THEN r1 - p ELSE r1

\* the running remainder after the steps of biases 0..f
RECURSIVE RunningRemainder(_, _, _)
RunningRemainder(tar, p, f) ==
    IF f = 0 THEN RemainderStep(tar % p, 0, p)
    ELSE RemainderStep(RunningRemainder(tar, p, f - 1), f, p)

OffsetIndexBad(tar, i, f) ==
    LET p == Prime(i)
    IN  (RunningRemainder(tar, p, f) * inverts(i)) % p

\* lines 236-238: index = ((p - remainder) * invert) % p
OffsetIndex(tar, i, f) ==
    LET p == Prime(i)
        pa == p - RunningRemainder(tar, p, f)
    IN  (pa * inverts(i)) % p

(***************************************************************************)
(* miningInit, lines 131-148: the capacity of a segment bucket.  The       *)
(* source sums 6*max_increments/p in doubles and takes the ceiling; the    *)
(* model sums in thousandths.                                              *)
(***************************************************************************)
RECURSIVE HighFloats(_)
HighFloats(i) ==
    IF i >= nPrimes THEN 0
    ELSE ((6 * max_increments * 1000) \div Prime(i)) + HighFloats(i + 1)

high_segment_entries == (HighFloats(5) + 999) \div 1000

entriesPerSegmentInit ==
    IF high_segment_entries = 0 THEN 1
    ELSE LET e == (high_segment_entries \div maxiter) + 4
         IN  e + (e \div 8)

(***************************************************************************)
(* put_offsets_in_segments, lines 194-208, on the pair (segment_counts,    *)
(* segment_hits); exited is set where the source calls exit(-1).           *)
(***************************************************************************)
Segments == 0..(maxiter - 1)

VARIABLES
    entriesPerSegment,     \* entriesPerSegment, as miningInit left it
    bucket_lock,           \* the holder of bucket_lock (0: free)
    offset_stack,          \* the offset_stack of each thread, as yet unflushed
    written,               \* <<segment, sc>> of the writes into segment_hits
    scOf,                  \* sc of each thread in put_offsets_in_segments
    table                  \* the sizes miningInit left and the locals of a
                           \* dispatch loop, where these vary

modVars == <<entriesPerSegment, bucket_lock, offset_stack, written, scOf,
            table>>

OverflowsBad(sc, capacity) == sc > capacity

\* line 200: sc >= entriesPerSegment
Overflows(sc, capacity) == sc >= capacity

RECURSIVE put_offsets_in_segments(_, _)
put_offsets_in_segments(seg, stack) ==
    IF stack = <<>> \/ seg.exited THEN seg
    ELSE LET index == Head(stack)
             segment == index \div riecoin_sieveSize
             sc == seg.counts[segment]
         IN  IF Overflows(sc, entriesPerSegment)
             THEN [seg EXCEPT !.exited = TRUE]
             ELSE put_offsets_in_segments(
                    [seg EXCEPT
                       !.hits[segment][sc] =
                          index - (riecoin_sieveSize * segment),
                       !.counts[segment] = @ + 1],
                    Tail(stack))

\* lines 222-251: the once-only hits of the prime indexes [i, end_i), in the
\* order the source pushes them on its offset stack
RECURSIVE OnceOnlyStack(_, _, _, _)
OnceOnlyStack(tar, i, f, end_i) ==
    IF i >= end_i THEN <<>>
    ELSE IF f > 5 THEN OnceOnlyStack(tar, i + 1, 0, end_i)
    ELSE IF Prime(i) >= max_increments /\ OffsetIndex(tar, i, f) < max_increments
         THEN <<OffsetIndex(tar, i, f)>> \o OnceOnlyStack(tar, i, f + 1, end_i)
         ELSE OnceOnlyStack(tar, i, f + 1, end_i)

\* lines 239-240: the resident offsets after update_remainders(start_i, end_i)
ResidentOffsets(offs, tar, start_i, end_i) ==
    [i \in DOMAIN offs |->
       IF i >= start_i /\ i < end_i
       THEN [f \in Biases |-> OffsetIndex(tar, i, f)]
       ELSE offs[i]]

(***************************************************************************)
(* The sieve: bitmaps are sets of marked bit positions (bit x of a bitmap  *)
(* is bit x & 7 of byte x >> 3, which on the little-endian build is bit    *)
(* x % 64 of word x / 64).                                                 *)
(***************************************************************************)
Min(a, b) == IF a < b THEN a ELSE b
Max(a, b) == IF a > b THEN a ELSE b

\* miningInit, lines 91-92
sieveWorkers == Min(Max(1, threads \div 4), 8)

Positions == 0..(riecoin_sieveSize - 1)

\* silly_sort_indexes, lines 166-173, from the pair (i, j) on
RECURSIVE SillySortFrom(_, _, _)
SillySortFrom(indexes, i, j) ==
    IF i >= 5 THEN indexes
    ELSE IF j >= 6 THEN SillySortFrom(indexes, i + 1, i + 2)
    ELSE IF indexes[j] < indexes[i]
         THEN SillySortFrom([indexes EXCEPT ![i] = indexes[j], ![j] = indexes[i]],
                            i, j + 1)
         ELSE SillySortFrom(indexes, i, j + 1)

silly_sort_indexes(indexes) == SillySortFrom(indexes, 0, 1)

CarryOverBad(off) == off % riecoin_sieveSize

\* lines 273, 507: offsets[pno][f] -= riecoin_sieveSize
CarryOver(off) == off - riecoin_sieveSize

\* lines 502-507: the dense walk of one offset; st = [sieve, off]
RECURSIVE DenseWalk(_, _)
DenseWalk(st, p) ==
    IF st.off < riecoin_sieveSize
    THEN DenseWalk([sieve |-> st.sieve \cup {st.off}, off |-> st.off + p], p)
    ELSE [st EXCEPT !.off = CarryOver(@)]

\* lines 501-508: the six offsets of dense prime pno; st = [sieve, offsets]
RECURSIVE DenseBiases(_, _, _)
DenseBiases(st, pno, f) ==
    IF f > 5 THEN st
    ELSE LET w == DenseWalk([sieve |-> st.sieve, off |-> st.offsets[pno][f]],
                            Prime(pno))
         IN  DenseBiases([sieve |-> w.sieve,
                          offsets |-> [st.offsets EXCEPT ![pno][f] = w.off]],
                         pno, f + 1)

\* lines 497-509: the dense loop from i on
RECURSIVE DenseLoop(_, _)
DenseLoop(st, i) ==
    IF i >= n_dense THEN st
    ELSE LET pno == i + startingPrimeIndex
             sorted == [st EXCEPT !.offsets[pno] = silly_sort_indexes(@)]
         IN  DenseLoop(DenseBiases(sorted, pno, 0), i + 1)

\* init_pending, lines 177-180
init_pending == [i \in 0..(PENDING_SIZE - 1) |-> 0]

\* add_to_pending, lines 182-192; st has sieve, pending, pos
add_to_pending(st, ent) ==
    LET old == st.pending[st.pos]
    IN  [st EXCEPT !.sieve = IF old # 0 THEN @ \cup {old} ELSE @,
                   !.pending[st.pos] = ent,
                   !.pos = (st.pos + 1) % PENDING_SIZE]

\* lines 276-282 and 527-533: the entries left in the ring are marked
FlushPending(st) ==
    st.sieve \cup {st.pending[i] : i \in {k \in 0..(PENDING_SIZE - 1) :
                                              st.pending[k] # 0}}

\* lines 268-272: the sparse walk of offsets[pno][f]; st has sieve, pending,
\* pos, offsets
RECURSIVE SparseWalk(_, _, _)
SparseWalk(st, pno, f) ==
    IF st.offsets[pno][f] < riecoin_sieveSize
    THEN SparseWalk([add_to_pending(st, st.offsets[pno][f])
                       EXCEPT !.offsets[pno][f] = @ + Prime(pno)], pno, f)
    ELSE [st EXCEPT !.offsets[pno][f] = CarryOver(@)]

\* lines 264-274: the loop of process_sieve from (i, f) on
RECURSIVE SparseLoop(_, _, _, _)
SparseLoop(st, i, f, end_i) ==
    IF i >= end_i THEN st
    ELSE IF f > 5 THEN SparseLoop(st, i + 1, 0, end_i)
    ELSE SparseLoop(SparseWalk(st, i + startingPrimeIndex, f), i, f + 1, end_i)

\* process_sieve, lines 259-283: the bitmap and the offsets it leaves
process_sieve(bitmap, offs, start_i, end_i) ==
    LET st == SparseLoop([sieve |-> bitmap, pending |-> init_pending, pos |-> 0,
                          offsets |-> offs], start_i, 0, end_i)
    IN  [sieve |-> FlushPending(st), offsets |-> st.offsets]

\* lines 521-533: the once-only bucket of the iteration is applied
RECURSIVE ApplyHits(_, _)
ApplyHits(st, hits) ==
    IF hits = <<>> THEN st
    ELSE ApplyHits(add_to_pending(st, Head(hits)), Tail(hits))

ApplySegment(bitmap, hits) ==
    FlushPending(ApplyHits([sieve |-> bitmap, pending |-> init_pending,
                            pos |-> 0], hits))

\* lines 542-555: the order in which the scan visits the bit positions: word
\* by word, each from its most significant bit down
ScanOrder ==
    [k \in 1..riecoin_sieveSize |->
       LET b == (k - 1) \div WordBits
           r == (k - 1) % WordBits
       IN  (b * WordBits) + (WordBits - 1 - r)]

(***************************************************************************)
(* verify_thread, lines 315-356: the Fermat test and the share.            *)
(***************************************************************************)
\* a*b mod n for a, b < n < 2^21, in steps whose products stay below 2^31
RECURSIVE MulMod(_, _, _)
MulMod(a, b, n) ==
    IF b < 1024 THEN (a * b) % n
    ELSE (((MulMod(a, b \div 1024, n) * 1024) % n) + ((a * (b % 1024)) % n)) % n

\* mpz_powm(r, b, e, n)
RECURSIVE mpz_powm(_, _, _)
mpz_powm(b, e, n) ==
    IF e = 0 THEN 1 % n
    ELSE LET h == mpz_powm(b, e \div 2, n)
             s == MulMod(h, h, n)
         IN  IF e % 2 = 1 THEN MulMod(s, b % n, n) ELSE s

\* lines 328-331: 2^(n-1) mod n = 1
Fermat(n) == mpz_powm(2, n - 1, n) = 1

\* lines 336-345: the members after the i-th are tested until one fails
RECURSIVE TupleCountFrom(_, _, _)
TupleCountFrom(n, i, count) ==
    IF i >= 6 THEN count
    ELSE LET n1 == n + primeTupleOffset[i + 1]
         IN  IF Fermat(n1) THEN TupleCountFrom(n1, i + 1, count + 1) ELSE count

\* lines 317-345: nPrimes of the candidate n
TupleCount(n) == IF Fermat(n) THEN TupleCountFrom(n, 1, 1) ELSE 0

\* lines 318-324: the number tested for index idx of a job tagged loop
CandidateNumber(target, rem, loop, idx) ==
    (primorial * (loop * riecoin_sieveSize)) + (primorial * idx) + rem + target

\* the limbs of z, least significant first (_mp_d, _mp_size of them)
RECURSIVE LimbsOf(_)
LimbsOf(z) ==
    IF z = 0 THEN <<>>
    ELSE <<z % Pow2(LimbBits)>> \o LimbsOf(z \div Pow2(LimbBits))

\* lines 350-353: nOffset, zeroed, then the first min(32/8, size) limbs
EncodeOffset(z) ==
    [d \in 0..(OffsetLimbs - 1) |->
       IF d < Min(OffsetLimbs, Len(LimbsOf(z))) THEN LimbsOf(z)[d + 1] ELSE 0]

\* the number a 32-byte little-endian offset stands for
RECURSIVE ReadLEFrom(_, _)
ReadLEFrom(buf, d) ==
    IF d >= OffsetLimbs THEN 0
    ELSE buf[d] + (Pow2(LimbBits) * ReadLEFrom(buf, d + 1))

readLE(buf) == ReadLEFrom(buf, 0)

(***************************************************************************)
(* miningProcess: the jobs the master dispatches.                          *)
(***************************************************************************)
\* lines 448-450: the TYPE_MOD job pushed at base, of a table of count primes
ModJobAt(base, incr, count) ==
    [type |-> "MOD", start |-> base, end |-> Min(count, base + incr)]

\* lines 443-453: the TYPE_MOD jobs pushed from base on (incr > 0)
RECURSIVE ModJobsFrom(_, _)
ModJobsFrom(base, incr) ==
    IF base >= nPrimes THEN <<>>
    ELSE <<ModJobAt(base, incr, nPrimes)>> \o ModJobsFrom(base + incr, incr)

\* line 443
ModIncr(count) == count \div ModChunks

ModJobs == ModJobsFrom(primorialNumber, ModIncr(nPrimes))

\* lines 482, 492: lim + 1000 > n_dense + n_sparse
IsLast(lim, total, slack) == lim + slack > total

\* lines 480-486: the TYPE_SIEVE job pushed at base, of total dense and
\* sparse primes
SieveJobAt(base, incr, which_sieve, total, slack) ==
    LET lim0 == Min(total, base + incr)
        lim == IF IsLast(lim0, total, slack) THEN total ELSE lim0
    IN  [type |-> "SIEVE", start |-> base, end |-> lim,
         sieveId |-> which_sieve]

\* lines 477-494: the TYPE_SIEVE jobs pushed from base on
RECURSIVE SieveJobsFrom(_, _, _)
SieveJobsFrom(base, incr, which_sieve) ==
    IF base >= n_dense + n_sparse THEN <<>>
    ELSE LET job == SieveJobAt(base, incr, which_sieve, n_dense + n_sparse,
                               TailSlack)
         IN  IF IsLast(job.end, n_dense + n_sparse, TailSlack) THEN <<job>>
             ELSE <<job>> \o SieveJobsFrom(base + incr, incr,
                                           (which_sieve + 1) % sieveWorkers)

SieveIncrBad(sparse, workers) == Max(1, sparse \div workers)

\* line 477
SieveIncr(sparse, workers) == (sparse \div workers) + 1

SieveJobs == SieveJobsFrom(n_dense, SieveIncr(n_sparse, sieveWorkers), 0)

SeqRange(q) == {q[k] : k \in DOMAIN q}

\* the targets getTargetFromBlock may hand to the sieve
SieveTargets == {(q * primorial) + d : q \in 0..MaxQuot, d \in {0, 1}}
\* the targets of the remainder computations
Targets == {(q * primorial) + d : q \in 0..MaxQuot, d \in {0, 1, primorial - 1}}

(***************************************************************************)
(* State.                                                                  *)
(***************************************************************************)
VARIABLES
    zTarget,               \* z_verify_target
    zRemainderPrimorial,   \* z_verify_remainderPrimorial
    offsets,               \* offsets[i][f], i a resident prime index
    segment_counts,        \* segment_counts[k]
    segment_hits,          \* segment_hits[k][0 .. entriesPerSegment-1]
    exited,                \* exit(-1) was called
    sieve,                 \* riecoin_sieve, the main bitmap
    sieves,                \* miner.sieves[id], the auxiliary bitmaps
    loop,                  \* the iteration of miningProcess
    phase,                 \* where the master is in miningProcess
    modJobs,               \* TYPE_MOD jobs pushed and not yet done
    sieveJobs,             \* TYPE_SIEVE jobs pushed and not yet done
    denseDone,             \* the dense loop of the iteration has run
    w,                     \* the TYPE_CHECK job being filled
    scan,                  \* the place of the scan in ScanOrder
    checkQueue,            \* the TYPE_CHECK jobs waiting in verifyWorkQueue
    heightChanged,         \* block.height != monitorCurrentBlockHeight
    nblocks,               \* calls of miningProcess so far (the work handle)
    lastMod,               \* the range of the last update_remainders
    emitted,               \* <<loop, j>> appended to a TYPE_CHECK job
    completed,             \* iterations scanned to the end
    verified,              \* <<loop, j>> tested by a verify worker
    submissions            \* the calls of submitWork

\* the state of the data path other than loop
dataRest == <<zTarget, zRemainderPrimorial, offsets, segment_counts,
              segment_hits, exited, sieve, sieves, phase, modJobs,
              sieveJobs, denseDone, w, scan, checkQueue, heightChanged,
              nblocks, lastMod, emitted, completed, verified, submissions>>

VARIABLES
    pc,                        \* where each thread is
    there_is_a_master,         \* there_is_a_master
    isMaster,                  \* the thread_local isMaster of each thread
    master_lock,               \* the holder of master_lock (0: free)
    verifyWorkQueue,           \* miner.verifyWorkQueue
    workerDoneQueue,           \* miner.workerDoneQueue (tokens)
    testDoneQueue,             \* miner.testDoneQueue (tokens)
    jobOf,                     \* the job of verify_thread, per thread
    n_workers,                 \* n_workers of miningProcess
    popped,                    \* the i of the loops that pop workerDoneQueue
    outstandingTests,          \* outstandingTests of miningProcess
    n_indexes,                 \* w.testWork.n_indexes
    cands,                     \* clear bits the scan has yet to meet
    monitorCurrentBlockHeight, \* monitorCurrentBlockHeight
    block_height,              \* block.height of the master's call
    ncalls,                    \* returns of miningProcess on the master
    elected,                   \* the first thread to set isMaster (0: none)
    budget,                    \* verify jobs outstanding at the change, plus 1
    consumed,                  \* testDoneQueue tokens taken since the change
    merged,                    \* the auxiliary bitmaps of loop are merged
    applied,                   \* the once-only bucket of loop is applied
    cancelled                  \* line 572 was reached in this call

schedVars == <<pc, there_is_a_master, isMaster, master_lock, verifyWorkQueue,
               workerDoneQueue, testDoneQueue, jobOf, n_workers, popped,
               outstandingTests, n_indexes, cands, monitorCurrentBlockHeight,
               block_height, ncalls, elected, budget, consumed, merged,
               applied, cancelled>>

vars == <<dataRest, loop, schedVars, modVars>>

Threads == 1..NumThreads

\* verify_thread holds no job
NoJob == [type |-> "NONE"]

SchedInit ==
    /\ pc = [t \in Threads |-> "call"]
    /\ there_is_a_master = FALSE
    /\ isMaster = [t \in Threads |-> FALSE]
    /\ master_lock = 0
    /\ verifyWorkQueue = <<>>
    /\ workerDoneQueue = <<>>
    /\ testDoneQueue = <<>>
    /\ jobOf = [t \in Threads |-> NoJob]
    /\ n_workers = 0
    /\ popped = 0
    /\ outstandingTests = 0
    /\ n_indexes = 0
    /\ cands = 0
    /\ monitorCurrentBlockHeight = 0
    /\ block_height = 0
    /\ ncalls = 0
    /\ elected = 0
    /\ budget = 0
    /\ consumed = 0
    /\ merged = FALSE
    /\ applied = FALSE
    /\ cancelled = FALSE

\* the number the sieve works from
Base == zTarget + zRemainderPrimorial

\* no mod job has begun
BucketInit ==
    /\ bucket_lock = 0
    /\ offset_stack = [t \in Threads |-> <<>>]
    /\ written = {}
    /\ scOf = [t \in Threads |-> 0]

\* the sizes are those of the table of primes
NoTable == [stage |-> "fixed"]

ModInit == BucketInit /\ table = NoTable

\* the data of a block of target T when entriesPerSegment is capacity
DataWith(T, ph, capacity) ==
    /\ entriesPerSegment = capacity
    /\ zTarget = T
    /\ zRemainderPrimorial = 0
    /\ offsets = [i \in ResidentIdx |-> [f \in Biases |-> 0]]
    /\ segment_counts = [k \in Segments |-> 0]
    /\ segment_hits = [k \in Segments |-> [e \in 0..(entriesPerSegment - 1) |-> 0]]
    /\ exited = FALSE
    /\ sieve = {}
    /\ sieves = [id \in 0..(sieveWorkers - 1) |-> {}]
    /\ loop = 0
    /\ phase = ph
    /\ modJobs = {}
    /\ sieveJobs = {}
    /\ denseDone = FALSE
    /\ w = [loop |-> 0, indexes |-> <<>>]
    /\ scan = 1
    /\ checkQueue = <<>>
    /\ heightChanged = FALSE
    /\ nblocks = 0
    /\ lastMod = <<0, 0>>
    /\ emitted = {}
    /\ completed = {}
    /\ verified = {}
    /\ submissions = {}

DataInitAt(T, ph) ==
    /\ DataWith(T, ph, entriesPerSegmentInit)
    /\ SchedInit
    /\ ModInit

DataInit == DataInitAt(0, "idle")

(***************************************************************************)
(* The data path of miningProcess and of the jobs it dispatches.  A job is *)
(* one step of the worker that drew it; the jobs of a phase run in any     *)
(* order, the dense loop in any order with the sparse jobs.                *)
(***************************************************************************)
\* lines 424-441: a new block; the segment counts are reset
NewBlock ==
    /\ phase = "idle"
    /\ nblocks < MaxBlocks
    /\ \E T \in SieveTargets :
         /\ zTarget' = T
         /\ zRemainderPrimorial' = RemainderPrimorial(T)
    /\ segment_counts' = [k \in Segments |-> 0]
    /\ modJobs' = SeqRange(ModJobs)
    /\ nblocks' = nblocks + 1
    /\ heightChanged' = FALSE
    /\ emitted' = {}
    /\ completed' = {}
    /\ verified' = {}
    /\ submissions' = {}
    /\ phase' = "mod"
    /\ UNCHANGED <<offsets, segment_hits, exited, sieve, sieves, loop,
                   sieveJobs, denseDone, w, scan, checkQueue, lastMod>>
    /\ UNCHANGED schedVars
    /\ UNCHANGED modVars

\* verify_thread, lines 303-307: update_remainders on the range of a job
RunMod ==
    /\ phase = "mod"
    /\ \E job \in modJobs :
         LET seg == put_offsets_in_segments(
                      [counts |-> segment_counts, hits |-> segment_hits,
                       exited |-> FALSE],
                      OnceOnlyStack(Base, job.start, 0, job.end))
         IN  /\ offsets' = ResidentOffsets(offsets, Base, job.start, job.end)
             /\ segment_counts' = seg.counts
             /\ segment_hits' = seg.hits
             /\ exited' = seg.exited
             /\ phase' = IF seg.exited THEN "exit" ELSE phase
             /\ modJobs' = modJobs \ {job}
             /\ lastMod' = <<job.start, job.end>>
    /\ UNCHANGED <<zTarget, zRemainderPrimorial, sieve, sieves, loop,
                   sieveJobs, denseDone, w, scan, checkQueue, heightChanged,
                   nblocks, emitted, completed, verified, submissions>>
    /\ UNCHANGED schedVars
    /\ UNCHANGED modVars

\* lines 454-466: every TYPE_MOD token was popped; the loop starts
ModDone ==
    /\ phase = "mod"
    /\ modJobs = {}
    /\ loop' = 0
    /\ phase' = "iter"
    /\ UNCHANGED <<zTarget, zRemainderPrimorial, offsets, segment_counts,
                   segment_hits, exited, sieve, sieves, modJobs, sieveJobs,
                   denseDone, w, scan, checkQueue, heightChanged, nblocks,
                   lastMod, emitted, completed, verified, submissions>>
    /\ UNCHANGED schedVars
    /\ UNCHANGED modVars

\* lines 466-494: the head of an iteration
BeginIteration ==
    /\ phase = "iter"
    /\ IF loop >= maxiter \/ heightChanged
       THEN /\ phase' = "drain"
            /\ UNCHANGED <<sieves, sieveJobs, denseDone>>
       ELSE /\ sieves' = [id \in 0..(sieveWorkers - 1) |-> {}]
            /\ sieveJobs' = SeqRange(SieveJobs)
            /\ denseDone' = FALSE
            /\ phase' = "sieve"
    /\ UNCHANGED <<zTarget, zRemainderPrimorial, offsets, segment_counts,
                   segment_hits, exited, sieve, loop, modJobs, w, scan,
                   checkQueue, heightChanged, nblocks, lastMod, emitted,
                   completed, verified, submissions>>
    /\ UNCHANGED schedVars
    /\ UNCHANGED modVars

\* lines 496-509: the main bitmap is zeroed and the dense primes sieved
DenseSieve ==
    /\ phase = "sieve"
    /\ ~denseDone
    /\ LET st == DenseLoop([sieve |-> {}, offsets |-> offsets], 0)
       IN  /\ sieve' = st.sieve
           /\ offsets' = st.offsets
    /\ denseDone' = TRUE
    /\ UNCHANGED <<zTarget, zRemainderPrimorial, segment_counts, segment_hits,
                   exited, sieves, loop, phase, modJobs, sieveJobs, w, scan,
                   checkQueue, heightChanged, nblocks, lastMod, emitted,
                   completed, verified, submissions>>
    /\ UNCHANGED schedVars
    /\ UNCHANGED modVars

\* verify_thread, lines 309-313: process_sieve on the range of a job
RunSieve ==
    /\ phase = "sieve"
    /\ \E job \in sieveJobs :
         LET r == process_sieve(sieves[job.sieveId], offsets, job.start, job.end)
         IN  /\ sieves' = [sieves EXCEPT ![job.sieveId] = r.sieve]
             /\ offsets' = r.offsets
             /\ sieveJobs' = sieveJobs \ {job}
    /\ UNCHANGED <<zTarget, zRemainderPrimorial, segment_counts, segment_hits,
                   exited, sieve, loop, phase, modJobs, denseDone, w, scan,
                   checkQueue, heightChanged, nblocks, lastMod, emitted,
                   completed, verified, submissions>>
    /\ UNCHANGED schedVars
    /\ UNCHANGED modVars

SegmentEntriesBad(k) == [e \in 1..segment_counts[k] |-> segment_hits[0][e - 1]]

\* the first segment_counts[k] entries of bucket k
SegmentEntries(k) == [e \in 1..segment_counts[k] |-> segment_hits[k][e - 1]]

\* lines 512-538: the tokens are popped, the auxiliary bitmaps merged, the
\* bucket of the iteration applied, an empty TYPE_CHECK job begun
MergeAndApply ==
    /\ phase = "sieve"
    /\ denseDone
    /\ sieveJobs = {}
    /\ sieve' = ApplySegment(
                  sieve \cup UNION {sieves[id] : id \in 0..(sieveWorkers - 1)},
                  SegmentEntries(loop))
    /\ w' = [loop |-> loop, indexes |-> <<>>]
    /\ scan' = 1
    /\ phase' = "extract"
    /\ UNCHANGED <<zTarget, zRemainderPrimorial, offsets, segment_counts,
                   segment_hits, exited, sieves, loop, modJobs, sieveJobs,
                   denseDone, checkQueue, heightChanged, nblocks, lastMod,
                   emitted, completed, verified, submissions>>
    /\ UNCHANGED schedVars
    /\ UNCHANGED modVars

\* the places of ScanOrder from scan on whose bit is clear
ClearFrom == {k \in scan..riecoin_sieveSize : ScanOrder[k] \notin sieve}

PushPartialBad(queue, job) == queue

\* lines 579-583: the job being filled is pushed when it holds an index
PushPartial(queue, job) == IF job.indexes # <<>> THEN Append(queue, job) ELSE queue

\* lines 546-576: one candidate; the job is pushed when full; on a height
\* change the queue is cleared and the scan left (lines 579-584 follow)
ExtractCandidate ==
    /\ phase = "extract"
    /\ ClearFrom # {}
    /\ LET k == CHOOSE x \in ClearFrom : \A y \in ClearFrom : x <= y
           i == ScanOrder[k]
           w1 == [w EXCEPT !.indexes = Append(@, i)]
           full == Len(w1.indexes) = WORK_INDEXES
           q1 == IF full THEN Append(checkQueue, w1) ELSE checkQueue
           w2 == IF full THEN [w1 EXCEPT !.indexes = <<>>] ELSE w1
       IN  /\ emitted' = emitted \cup {<<loop, i>>}
           /\ IF heightChanged
              THEN /\ checkQueue' = PushPartial(<<>>, w2)
                   /\ w' = [w2 EXCEPT !.indexes = <<>>]
                   /\ loop' = loop + 1
                   /\ phase' = "iter"
                   /\ scan' = scan
              ELSE /\ checkQueue' = q1
                   /\ w' = w2
                   /\ scan' = k + 1
                   /\ UNCHANGED <<loop, phase>>
    /\ UNCHANGED <<zTarget, zRemainderPrimorial, offsets, segment_counts,
                   segment_hits, exited, sieve, sieves, modJobs, sieveJobs,
                   denseDone, heightChanged, nblocks, lastMod, completed,
                   verified, submissions>>
    /\ UNCHANGED schedVars
    /\ UNCHANGED modVars

\* lines 542, 579-584: the scan reached the last word
EndIteration ==
    /\ phase = "extract"
    /\ ClearFrom = {}
    /\ checkQueue' = PushPartial(checkQueue, w)
    /\ w' = [w EXCEPT !.indexes = <<>>]
    /\ completed' = completed \cup {loop}
    /\ loop' = loop + 1
    /\ phase' = "iter"
    /\ UNCHANGED <<zTarget, zRemainderPrimorial, offsets, segment_counts,
                   segment_hits, exited, sieve, sieves, modJobs, sieveJobs,
                   denseDone, scan, heightChanged, nblocks, lastMod, emitted,
                   verified, submissions>>
    /\ UNCHANGED schedVars
    /\ UNCHANGED modVars

ShareOfBad(job, idx) ==
    LET n == CandidateNumber(zTarget, zRemainderPrimorial, job.loop, idx)
    IN  [handle |-> nblocks, off |-> EncodeOffset(n),
         k |-> TupleCount(n), loop |-> job.loop, j |-> idx,
         target |-> zTarget, rem |-> zRemainderPrimorial]

\* lines 347-355: the share of index idx of a job
ShareOf(job, idx) ==
    LET n == CandidateNumber(zTarget, zRemainderPrimorial, job.loop, idx)
    IN  [handle |-> nblocks, off |-> EncodeOffset(n - zTarget),
         k |-> TupleCount(n), loop |-> job.loop, j |-> idx,
         target |-> zTarget, rem |-> zRemainderPrimorial]

\* lines 331-332, 347: the candidates of a job that are submitted
Submitted(job) ==
    {ShareOf(job, job.indexes[x]) : x \in
       {y \in DOMAIN job.indexes :
          LET c == TupleCount(CandidateNumber(zTarget, zRemainderPrimorial,
                                              job.loop, job.indexes[y]))
          IN  c # 0 /\ ~(c < tuplesThreshold)}}

\* verify_thread, lines 315-358: a worker draws and runs a TYPE_CHECK job
RunCheck ==
    /\ checkQueue # <<>>
    /\ submissions' = submissions \cup Submitted(Head(checkQueue))
    /\ verified' = verified \cup
                     {<<Head(checkQueue).loop, Head(checkQueue).indexes[x]>> :
                        x \in DOMAIN Head(checkQueue).indexes}
    /\ checkQueue' = Tail(checkQueue)
    /\ UNCHANGED <<zTarget, zRemainderPrimorial, offsets, segment_counts,
                   segment_hits, exited, sieve, sieves, loop, phase, modJobs,
                   sieveJobs, denseDone, w, scan, heightChanged, nblocks,
                   lastMod, emitted, completed>>
    /\ UNCHANGED schedVars
    /\ UNCHANGED modVars

\* lines 588-594: on a height change the queue is cleared while draining
DrainClear ==
    /\ phase = "drain"
    /\ heightChanged
    /\ checkQueue # <<>>
    /\ checkQueue' = <<>>
    /\ UNCHANGED <<zTarget, zRemainderPrimorial, offsets, segment_counts,
                   segment_hits, exited, sieve, sieves, loop, phase, modJobs,
                   sieveJobs, denseDone, w, scan, heightChanged, nblocks,
                   lastMod, emitted, completed, verified, submissions>>
    /\ UNCHANGED schedVars
    /\ UNCHANGED modVars

\* lines 588-597: no test is outstanding; miningProcess returns
Return ==
    /\ phase = "drain"
    /\ checkQueue = <<>>
    /\ phase' = "idle"
    /\ UNCHANGED <<zTarget, zRemainderPrimorial, offsets, segment_counts,
                   segment_hits, exited, sieve, sieves, loop, modJobs,
                   sieveJobs, denseDone, w, scan, checkQueue, heightChanged,
                   nblocks, lastMod, emitted, completed, verified, submissions>>
    /\ UNCHANGED schedVars
    /\ UNCHANGED modVars

\* monitorCurrentBlockHeight moves on
HeightChange ==
    /\ phase \notin {"idle", "exit"}
    /\ ~heightChanged
    /\ heightChanged' = TRUE
    /\ UNCHANGED <<zTarget, zRemainderPrimorial, offsets, segment_counts,
                   segment_hits, exited, sieve, sieves, loop, phase, modJobs,
                   sieveJobs, denseDone, w, scan, checkQueue, nblocks, lastMod,
                   emitted, completed, verified, submissions>>
    /\ UNCHANGED schedVars
    /\ UNCHANGED modVars

SieveNext ==
    \/ NewBlock \/ RunMod \/ ModDone \/ BeginIteration \/ DenseSieve
    \/ RunSieve \/ MergeAndApply \/ ExtractCandidate \/ EndIteration
    \/ RunCheck \/ DrainClear \/ Return \/ HeightChange

SpecSieve == DataInit /\ [][SieveNext]_vars

(***************************************************************************)
(* Properties of the data path (SpecSieve).                                *)
(***************************************************************************)
\* the number at position j of iteration l, by the definition of the search
NumberAt(l, j) == Base + (((l * riecoin_sieveSize) + j) * primorial)

\* some sieved prime divides some member of the constellation at (l, j)
Eliminated(l, j) ==
    \E i \in SievedIdx : \E f \in Biases :
       (NumberAt(l, j) + cumulativeBias(f)) % Prime(i) = 0

\* the members of the constellation at n that pass, counted from the first
LeadingPasses(n) ==
    IF \A f \in Biases : Fermat(n + cumulativeBias(f)) THEN 6
    ELSE CHOOSE k \in 0..5 :
           /\ ~Fermat(n + cumulativeBias(k))
           /\ \A f \in 0..(k - 1) : Fermat(n + cumulativeBias(f))

\* C1: every submitWork(handle, off, k) of a verify worker, for index j of a
\* job tagged loop, has zTarget + off = n = zTarget + zRemainderPrimorial +
\* (loop*sieveSize + j)*P; the first k members of the constellation at n pass
\* the Fermat test; k = 6 or the next member fails; k >= tuplesThreshold; and
\* no tested candidate with fewer leading passes than the threshold is
\* submitted.
C1_SubmissionSound ==
    /\ \A s \in submissions :
         LET n == s.target + s.rem +
                  (((s.loop * riecoin_sieveSize) + s.j) * primorial)
         IN  /\ s.k \in 1..6
             /\ s.target + readLE(s.off) = n
             /\ \A f \in 0..(s.k - 1) : Fermat(n + cumulativeBias(f))
             /\ s.k = 6 \/ ~Fermat(n + cumulativeBias(s.k))
             /\ s.k >= tuplesThreshold
             /\ s.handle = nblocks
    /\ \A v \in verified :
         LeadingPasses(NumberAt(v[1], v[2])) < tuplesThreshold
         => ~\E s \in submissions : s.loop = v[1] /\ s.j = v[2]

\* a full constellation was submitted, and a tested candidate was not
C1_Witness ==
    /\ \E s \in submissions : s.k = 6
    /\ \E v \in verified : ~\E s \in submissions : s.loop = v[1] /\ s.j = v[2]

\* C2: no sieved prime divides any member of the constellation at an emitted
\* candidate, index 0 included.
C2_SieveSound ==
    \A c \in emitted : ~Eliminated(c[1], c[2])

\* C2 without index 0
C2_SoundButZero ==
    \A c \in emitted : c[2] # 0 => ~Eliminated(c[1], c[2])

\* C3: a bit of the merged bitmap is set only where some sieved prime divides
\* some member of the constellation; the candidates of an iteration scanned
\* to its end contain every position no sieved prime eliminates.
C3_NoGoodEliminated ==
    /\ phase = "extract" => \A j \in sieve : j \in Positions /\ Eliminated(loop, j)
    /\ \A l \in completed :
         \A j \in Positions : ~Eliminated(l, j) => <<l, j>> \in emitted

\* the second iteration is being scanned, bits are set, and the first was
\* scanned to its end with a position that no prime eliminates
C3_Witness ==
    /\ phase = "extract"
    /\ loop = 1
    /\ sieve # {}
    /\ 0 \in completed
    /\ \E j \in Positions : ~Eliminated(0, j)

(***************************************************************************)
(* The remainder computations on their own (SpecRem): the target is any of *)
(* Targets, update_remainders runs on any range of sieved prime indexes.   *)
(***************************************************************************)
RemInit == \E T \in Targets : DataInitAt(T, "target")

\* miningProcess, lines 424-437
AlignTarget ==
    /\ phase = "target"
    /\ zRemainderPrimorial' = RemainderPrimorial(zTarget)
    /\ phase' = "aligned"
    /\ UNCHANGED <<zTarget, offsets, segment_counts, segment_hits, exited,
                   sieve, sieves, loop, modJobs, sieveJobs, denseDone, w, scan,
                   checkQueue, heightChanged, nblocks, lastMod, emitted,
                   completed, verified, submissions>>
    /\ UNCHANGED schedVars
    /\ UNCHANGED modVars

\* update_remainders(start_i, end_i), lines 212-257
UpdateRemainders ==
    /\ phase = "aligned"
    /\ \E start_i \in primorialNumber..nPrimes : \E end_i \in start_i..nPrimes :
         LET seg == put_offsets_in_segments(
                      [counts |-> segment_counts, hits |-> segment_hits,
                       exited |-> FALSE],
                      OnceOnlyStack(Base, start_i, 0, end_i))
         IN  /\ offsets' = ResidentOffsets(offsets, Base, start_i, end_i)
             /\ segment_counts' = seg.counts
             /\ segment_hits' = seg.hits
             /\ exited' = seg.exited
             /\ lastMod' = <<start_i, end_i>>
    /\ phase' = "updated"
    /\ UNCHANGED <<zTarget, zRemainderPrimorial, sieve, sieves, loop, modJobs,
                   sieveJobs, denseDone, w, scan, checkQueue, heightChanged,
                   nblocks, emitted, completed, verified, submissions>>
    /\ UNCHANGED schedVars
    /\ UNCHANGED modVars

RemNext == AlignTarget \/ UpdateRemainders

SpecRem == RemInit /\ [][RemNext]_vars

\* (Base + x*P + cumulativeBias(f)) is divisible by primes[i]
Hits(i, f, x) == (Base + (x * primorial) + cumulativeBias(f)) % Prime(i) = 0

\* C4: right after update_remainders(start, end), start >= primorialNumber,
\* offsets[i][f] of every resident prime index i of the range is the smallest
\* x >= 0 (so x < p) for which zTarget + zRemainderPrimorial + x*P +
\* cumulativeBias(f) is divisible by primes[i].
C4_OffsetsSmallest ==
    phase = "updated" =>
      \A i \in lastMod[1]..(lastMod[2] - 1) :
        Prime(i) < max_increments =>
          \A f \in Biases :
            /\ offsets[i][f] \in 0..(Prime(i) - 1)
            /\ Hits(i, f, offsets[i][f])
            /\ \A y \in 0..(offsets[i][f] - 1) : ~Hits(i, f, y)

\* a range was updated in which a running remainder came to exactly p, and
\* one came to 0
C4_Witness ==
    /\ phase = "updated"
    /\ \E i \in lastMod[1]..(lastMod[2] - 1) : \E f \in Biases :
         /\ Prime(i) < max_increments
         /\ RunningRemainder(Base, Prime(i), f) = Prime(i)
    /\ \E i \in lastMod[1]..(lastMod[2] - 1) : \E f \in Biases :
         /\ Prime(i) < max_increments
         /\ RunningRemainder(Base, Prime(i), f) = 0

\* C5: the remainder miningProcess computes puts the base on the residue
\* primorial_offset of the primorial.
C5_ResidueAligned ==
    phase \in {"aligned", "updated"} =>
      /\ primorial > primorial_offset
      /\ (zTarget + zRemainderPrimorial) % primorial = primorial_offset

\* a target above the primorial and not a multiple of it was aligned
C5_Witness ==
    /\ phase = "aligned"
    /\ zTarget > primorial
    /\ zTarget % primorial # 0

(***************************************************************************)
(* The schedule of miningProcess and verify_thread: the threads, the       *)
(* election of the master and the three queues.  A step is one access to   *)
(* shared memory together with the local code that follows it.  The jobs   *)
(* carry their tags and ranges; what they compute is in the data path       *)
(* above.                                                                  *)
(***************************************************************************)
\* returns of miningProcess on the master
MaxCalls == 2
\* values monitorCurrentBlockHeight moves through, from 0
MaxHeight == 1
\* clear bits of the bitmap of one iteration
MaxCands == 2
\* line 465: the width of outstandingTests
CounterBits == 8
\* line 48: ts_queue<riecoinPrimeTestWork, 1024>
VerifyCapacity == 1024
\* lines 49-50: ts_queue<int, 3096>
DoneCapacity == 3096

\* tsqueue.hpp: the operations of ts_queue on the sequence of its elements
push_back(q, x) == Append(q, x)

push_front(q, x) == <<x>> \o q

front(q) == Head(q)

pop_front(q) == Tail(q)

\* clear() empties the queue and returns the number of elements it held
clear(q) == Len(q)

DispatchSieveBad(q, wi) == push_back(q, wi)

\* line 488: miner.verifyWorkQueue.push_front(wi), ahead of the TYPE_CHECK
\* jobs still queued
DispatchSieve(q, wi) == push_front(q, wi)

\* line 392: the read of there_is_a_master outside the lock races with the
\* write of line 395; it sees the flag or its value before the write, and a
\* thread sees its own write
RacyRead(t) == IF isMaster[t] THEN {TRUE} ELSE {there_is_a_master, FALSE}

MayClaimBad(flag) == TRUE

\* line 394: the check repeated under master_lock
MayClaim(flag) == ~flag

SupersededBad(height, current) == FALSE

\* lines 469, 571, 591: block.height != monitorCurrentBlockHeight
Superseded(height, current) == height # current

AwaitedBad(i, n) == i + 1 < n

\* lines 454, 512: i < n_workers, the tokens still to pop
Awaited(i, n) == i < n

DrainContinuesBad(outst) == outst > 1

\* line 588: outstandingTests > 0
DrainContinues(outst) == outst > 0

\* lines 511, 561, 568, 572, 586, 592: outstandingTests -= n, on uint32_t
AfterClear(outst, n) == (outst - n) % Pow2(CounterBits)

AfterPushBad(outst) == outst

\* lines 566, 581: outstandingTests++
AfterPush(outst) == (outst + 1) % Pow2(CounterBits)

\* lines 535-538, 559-560: the TYPE_CHECK job the master fills
CheckJob == [type |-> "CHECK", loop |-> loop, n_indexes |-> n_indexes]

ElectionPcs == {"call", "e_lock", "e_check", "e_set", "e_unlock", "e_role"}

WorkerPcs == {"w_pop", "w_run"}

\* the master is between line 406 and the return of line 597
Inside(t) == pc[t] \notin (ElectionPcs \cup WorkerPcs)

MasterInside == \E t \in Threads : isMaster[t] /\ Inside(t)

Queued(type) == Cardinality({k \in DOMAIN verifyWorkQueue :
                               verifyWorkQueue[k].type = type})

\* workers that drew a job of the type and have not finished it
Running(type) == Cardinality({t \in Threads :
                                pc[t] = "w_run" /\ jobOf[t].type = type})

Unfinished(type) == Queued(type) + Running(type) > 0

\* verify jobs pushed whose token the master has not taken
Outstanding == Queued("CHECK") + Running("CHECK") + Len(testDoneQueue)

\* the tokens taken from testDoneQueue since the height moved
Taken(n) == IF budget # 0 THEN consumed + n ELSE consumed

Go(t, l) == pc' = [pc EXCEPT ![t] = l]

\* miningProcess, line 392: a thread calls and reads there_is_a_master
Call(t) ==
    /\ pc[t] = "call"
    /\ isMaster[t] => ncalls < MaxCalls
    /\ \E seen \in RacyRead(t) : Go(t, IF seen THEN "e_role" ELSE "e_lock")
    /\ UNCHANGED <<there_is_a_master, isMaster, master_lock, verifyWorkQueue,
                   workerDoneQueue, testDoneQueue, jobOf, n_workers, popped,
                   outstandingTests, n_indexes, cands,
                   monitorCurrentBlockHeight, block_height, ncalls, elected,
                   budget, consumed, merged, applied, cancelled, loop>>
    /\ UNCHANGED dataRest
    /\ UNCHANGED modVars

\* line 393
Lock(t) ==
    /\ pc[t] = "e_lock"
    /\ master_lock = 0
    /\ master_lock' = t
    /\ Go(t, "e_check")
    /\ UNCHANGED <<there_is_a_master, isMaster, verifyWorkQueue,
                   workerDoneQueue, testDoneQueue, jobOf, n_workers, popped,
                   outstandingTests, n_indexes, cands,
                   monitorCurrentBlockHeight, block_height, ncalls, elected,
                   budget, consumed, merged, applied, cancelled, loop>>
    /\ UNCHANGED dataRest
    /\ UNCHANGED modVars

\* lines 394-395
Check(t) ==
    /\ pc[t] = "e_check"
    /\ IF MayClaim(there_is_a_master)
       THEN there_is_a_master' = TRUE /\ Go(t, "e_set")
       ELSE there_is_a_master' = there_is_a_master /\ Go(t, "e_unlock")
    /\ UNCHANGED <<isMaster, master_lock, verifyWorkQueue, workerDoneQueue,
                   testDoneQueue, jobOf, n_workers, popped, outstandingTests,
                   n_indexes, cands, monitorCurrentBlockHeight, block_height,
                   ncalls, elected, budget, consumed, merged, applied,
                   cancelled, loop>>
    /\ UNCHANGED dataRest
    /\ UNCHANGED modVars

\* line 396
SetMaster(t) ==
    /\ pc[t] = "e_set"
    /\ isMaster' = [isMaster EXCEPT ![t] = TRUE]
    /\ elected' = IF elected = 0 THEN t ELSE elected
    /\ Go(t, "e_unlock")
    /\ UNCHANGED <<there_is_a_master, master_lock, verifyWorkQueue,
                   workerDoneQueue, testDoneQueue, jobOf, n_workers, popped,
                   outstandingTests, n_indexes, cands,
                   monitorCurrentBlockHeight, block_height, ncalls, budget,
                   consumed, merged, applied, cancelled, loop>>
    /\ UNCHANGED dataRest
    /\ UNCHANGED modVars

\* line 398
Unlock(t) ==
    /\ pc[t] = "e_unlock"
    /\ master_lock' = 0
    /\ Go(t, "e_role")
    /\ UNCHANGED <<there_is_a_master, isMaster, verifyWorkQueue,
                   workerDoneQueue, testDoneQueue, jobOf, n_workers, popped,
                   outstandingTests, n_indexes, cands,
                   monitorCurrentBlockHeight, block_height, ncalls, elected,
                   budget, consumed, merged, applied, cancelled, loop>>
    /\ UNCHANGED dataRest
    /\ UNCHANGED modVars

\* lines 401-404: the master goes on with its block, whose height is one
\* monitorCurrentBlockHeight has had; the others enter verify_thread
Role(t) ==
    /\ pc[t] = "e_role"
    /\ IF isMaster[t]
       THEN /\ \E h \in 0..monitorCurrentBlockHeight : block_height' = h
            /\ Go(t, "m_start")
       ELSE /\ block_height' = block_height
            /\ Go(t, "w_pop")
    /\ UNCHANGED <<there_is_a_master, isMaster, master_lock, verifyWorkQueue,
                   workerDoneQueue, testDoneQueue, jobOf, n_workers, popped,
                   outstandingTests, n_indexes, cands,
                   monitorCurrentBlockHeight, ncalls, elected, budget,
                   consumed, merged, applied, cancelled, loop>>
    /\ UNCHANGED dataRest
    /\ UNCHANGED modVars

\* lines 406-446: the working set of the block, z_verify_target,
\* z_verify_remainderPrimorial and verify_block written
StartBlock(t) ==
    /\ pc[t] = "m_start"
    /\ n_workers' = 0
    /\ popped' = 0
    /\ Go(t, "m_modpush")
    /\ UNCHANGED <<there_is_a_master, isMaster, master_lock, verifyWorkQueue,
                   workerDoneQueue, testDoneQueue, jobOf, outstandingTests,
                   n_indexes, cands, monitorCurrentBlockHeight, block_height,
                   ncalls, elected, budget, consumed, merged, applied,
                   cancelled, loop>>
    /\ UNCHANGED dataRest
    /\ UNCHANGED modVars

\* lines 447-453: one TYPE_MOD job pushed
PushMod(t) ==
    /\ pc[t] = "m_modpush"
    /\ Len(verifyWorkQueue) < VerifyCapacity
    /\ verifyWorkQueue' = push_back(verifyWorkQueue, ModJobs[n_workers + 1])
    /\ n_workers' = n_workers + 1
    /\ Go(t, IF n_workers + 1 < Len(ModJobs) THEN "m_modpush" ELSE "m_modwait")
    /\ UNCHANGED <<there_is_a_master, isMaster, master_lock, workerDoneQueue,
                   testDoneQueue, jobOf, popped, outstandingTests, n_indexes,
                   cands, monitorCurrentBlockHeight, block_height, ncalls,
                   elected, budget, consumed, merged, applied, cancelled,
                   loop>>
    /\ UNCHANGED dataRest
    /\ UNCHANGED modVars

\* lines 454-455, 464-466: a token of a TYPE_MOD job popped
AwaitMod(t) ==
    /\ pc[t] = "m_modwait"
    /\ workerDoneQueue # <<>>
    /\ workerDoneQueue' = pop_front(workerDoneQueue)
    /\ popped' = popped + 1
    /\ IF Awaited(popped + 1, n_workers)
       THEN /\ Go(t, "m_modwait")
            /\ UNCHANGED <<loop, outstandingTests>>
       ELSE /\ Go(t, "m_loop")
            /\ loop' = 0
            /\ outstandingTests' = 0
    /\ UNCHANGED <<there_is_a_master, isMaster, master_lock, verifyWorkQueue,
                   testDoneQueue, jobOf, n_workers, n_indexes, cands,
                   monitorCurrentBlockHeight, block_height, ncalls, elected,
                   budget, consumed, merged, applied, cancelled>>
    /\ UNCHANGED dataRest
    /\ UNCHANGED modVars

\* lines 466-470: the head of the loop over the iterations
LoopHead(t) ==
    /\ pc[t] = "m_loop"
    /\ IF loop < maxiter /\ ~Superseded(block_height, monitorCurrentBlockHeight)
       THEN Go(t, "m_zero")
       ELSE Go(t, "m_drain0")
    /\ UNCHANGED <<there_is_a_master, isMaster, master_lock, verifyWorkQueue,
                   workerDoneQueue, testDoneQueue, jobOf, n_workers, popped,
                   outstandingTests, n_indexes, cands,
                   monitorCurrentBlockHeight, block_height, ncalls, elected,
                   budget, consumed, merged, applied, cancelled, loop>>
    /\ UNCHANGED dataRest
    /\ UNCHANGED modVars

\* lines 472-478: the auxiliary bitmaps zeroed
ZeroAux(t) ==
    /\ pc[t] = "m_zero"
    /\ merged' = FALSE
    /\ applied' = FALSE
    /\ n_workers' = 0
    /\ Go(t, "m_sievepush")
    /\ UNCHANGED <<there_is_a_master, isMaster, master_lock, verifyWorkQueue,
                   workerDoneQueue, testDoneQueue, jobOf, popped,
                   outstandingTests, n_indexes, cands,
                   monitorCurrentBlockHeight, block_height, ncalls, elected,
                   budget, consumed, cancelled, loop>>
    /\ UNCHANGED dataRest
    /\ UNCHANGED modVars

\* lines 479-494: one TYPE_SIEVE job pushed to the front
PushSieve(t) ==
    /\ pc[t] = "m_sievepush"
    /\ Len(verifyWorkQueue) < VerifyCapacity
    /\ verifyWorkQueue' = DispatchSieve(verifyWorkQueue, SieveJobs[n_workers + 1])
    /\ n_workers' = n_workers + 1
    /\ Go(t, IF n_workers + 1 < Len(SieveJobs) THEN "m_sievepush" ELSE "m_dense")
    /\ UNCHANGED <<there_is_a_master, isMaster, master_lock, workerDoneQueue,
                   testDoneQueue, jobOf, popped, outstandingTests, n_indexes,
                   cands, monitorCurrentBlockHeight, block_height, ncalls,
                   elected, budget, consumed, merged, applied, cancelled,
                   loop>>
    /\ UNCHANGED dataRest
    /\ UNCHANGED modVars

\* lines 496-511: the dense stratum, then the tokens of finished tests
DenseAndClear(t) ==
    /\ pc[t] = "m_dense"
    /\ outstandingTests' = AfterClear(outstandingTests, clear(testDoneQueue))
    /\ consumed' = Taken(clear(testDoneQueue))
    /\ testDoneQueue' = <<>>
    /\ popped' = 0
    /\ Go(t, "m_sievewait")
    /\ UNCHANGED <<there_is_a_master, isMaster, master_lock, verifyWorkQueue,
                   workerDoneQueue, jobOf, n_workers, n_indexes, cands,
                   monitorCurrentBlockHeight, block_height, ncalls, elected,
                   budget, merged, applied, cancelled, loop>>
    /\ UNCHANGED dataRest
    /\ UNCHANGED modVars

\* lines 512-513: a token of a TYPE_SIEVE job popped
AwaitSieve(t) ==
    /\ pc[t] = "m_sievewait"
    /\ workerDoneQueue # <<>>
    /\ workerDoneQueue' = pop_front(workerDoneQueue)
    /\ popped' = popped + 1
    /\ Go(t, IF Awaited(popped + 1, n_workers) THEN "m_sievewait" ELSE "m_merge")
    /\ UNCHANGED <<there_is_a_master, isMaster, master_lock, verifyWorkQueue,
                   testDoneQueue, jobOf, n_workers, outstandingTests,
                   n_indexes, cands, monitorCurrentBlockHeight, block_height,
                   ncalls, elected, budget, consumed, merged, applied,
                   cancelled, loop>>
    /\ UNCHANGED dataRest
    /\ UNCHANGED modVars

\* lines 515-519: the auxiliary bitmaps OR-ed into the bitmap
Merge(t) ==
    /\ pc[t] = "m_merge"
    /\ merged' = TRUE
    /\ Go(t, "m_apply")
    /\ UNCHANGED <<there_is_a_master, isMaster, master_lock, verifyWorkQueue,
                   workerDoneQueue, testDoneQueue, jobOf, n_workers, popped,
                   outstandingTests, n_indexes, cands,
                   monitorCurrentBlockHeight, block_height, ncalls, elected,
                   budget, consumed, applied, cancelled, loop>>
    /\ UNCHANGED dataRest
    /\ UNCHANGED modVars

\* lines 521-540: the bucket of the iteration applied; the bitmap is left
\* with some clear bits and an empty TYPE_CHECK job is begun
Apply(t) ==
    /\ pc[t] = "m_apply"
    /\ applied' = TRUE
    /\ \E c \in 0..MaxCands : cands' = c
    /\ n_indexes' = 0
    /\ Go(t, "m_scan")
    /\ UNCHANGED <<there_is_a_master, isMaster, master_lock, verifyWorkQueue,
                   workerDoneQueue, testDoneQueue, jobOf, n_workers, popped,
                   outstandingTests, monitorCurrentBlockHeight, block_height,
                   ncalls, elected, budget, consumed, merged, cancelled,
                   loop>>
    /\ UNCHANGED dataRest
    /\ UNCHANGED modVars

\* lines 542-561: the next clear bit joins the job, or the scan ends
Scan(t) ==
    /\ pc[t] = "m_scan"
    /\ IF cands = 0
       THEN /\ Go(t, "m_partial")
            /\ UNCHANGED <<cands, n_indexes, outstandingTests, consumed,
                           testDoneQueue>>
       ELSE /\ cands' = cands - 1
            /\ n_indexes' = n_indexes + 1
            /\ outstandingTests' = AfterClear(outstandingTests, clear(testDoneQueue))
            /\ consumed' = Taken(clear(testDoneQueue))
            /\ testDoneQueue' = <<>>
            /\ Go(t, IF n_indexes + 1 = WORK_INDEXES THEN "m_full" ELSE "m_c2")
    /\ UNCHANGED <<there_is_a_master, isMaster, master_lock, verifyWorkQueue,
                   workerDoneQueue, jobOf, n_workers, popped,
                   monitorCurrentBlockHeight, block_height, ncalls, elected,
                   budget, merged, applied, cancelled, loop>>
    /\ UNCHANGED dataRest
    /\ UNCHANGED modVars

\* lines 563-567: the full job pushed
PushFull(t) ==
    /\ pc[t] = "m_full"
    /\ Len(verifyWorkQueue) < VerifyCapacity
    /\ verifyWorkQueue' = push_back(verifyWorkQueue, CheckJob)
    /\ n_indexes' = 0
    /\ outstandingTests' = AfterPush(outstandingTests)
    /\ Go(t, "m_c2")
    /\ UNCHANGED <<there_is_a_master, isMaster, master_lock, workerDoneQueue,
                   testDoneQueue, jobOf, n_workers, popped, cands,
                   monitorCurrentBlockHeight, block_height, ncalls, elected,
                   budget, consumed, merged, applied, cancelled, loop>>
    /\ UNCHANGED dataRest
    /\ UNCHANGED modVars

\* line 568
ClearAfter(t) ==
    /\ pc[t] = "m_c2"
    /\ outstandingTests' = AfterClear(outstandingTests, clear(testDoneQueue))
    /\ consumed' = Taken(clear(testDoneQueue))
    /\ testDoneQueue' = <<>>
    /\ Go(t, "m_chk")
    /\ UNCHANGED <<there_is_a_master, isMaster, master_lock, verifyWorkQueue,
                   workerDoneQueue, jobOf, n_workers, popped, n_indexes,
                   cands, monitorCurrentBlockHeight, block_height, ncalls,
                   elected, budget, merged, applied, cancelled, loop>>
    /\ UNCHANGED dataRest
    /\ UNCHANGED modVars

\* line 571
CheckHeight(t) ==
    /\ pc[t] = "m_chk"
    /\ IF Superseded(block_height, monitorCurrentBlockHeight)
       THEN Go(t, "m_clearq")
       ELSE Go(t, "m_scan")
    /\ UNCHANGED <<there_is_a_master, isMaster, master_lock, verifyWorkQueue,
                   workerDoneQueue, testDoneQueue, jobOf, n_workers, popped,
                   outstandingTests, n_indexes, cands,
                   monitorCurrentBlockHeight, block_height, ncalls, elected,
                   budget, consumed, merged, applied, cancelled, loop>>
    /\ UNCHANGED dataRest
    /\ UNCHANGED modVars

\* lines 572-574: the jobs not yet drawn are dropped and the scan ends
ClearQueue(t) ==
    /\ pc[t] = "m_clearq"
    /\ outstandingTests' = AfterClear(outstandingTests, clear(verifyWorkQueue))
    /\ verifyWorkQueue' = <<>>
    /\ cancelled' = TRUE
    /\ Go(t, "m_partial")
    /\ UNCHANGED <<there_is_a_master, isMaster, master_lock, workerDoneQueue,
                   testDoneQueue, jobOf, n_workers, popped, n_indexes, cands,
                   monitorCurrentBlockHeight, block_height, ncalls, elected,
                   budget, consumed, merged, applied, loop>>
    /\ UNCHANGED dataRest
    /\ UNCHANGED modVars

\* lines 579-584: the job being filled is pushed when it holds an index,
\* and the iteration ends
Partial(t) ==
    /\ pc[t] = "m_partial"
    /\ IF n_indexes > 0
       THEN /\ Len(verifyWorkQueue) < VerifyCapacity
            /\ verifyWorkQueue' = push_back(verifyWorkQueue, CheckJob)
            /\ outstandingTests' = AfterPush(outstandingTests)
            /\ n_indexes' = 0
       ELSE UNCHANGED <<verifyWorkQueue, outstandingTests, n_indexes>>
    /\ loop' = loop + 1
    /\ Go(t, "m_loop")
    /\ UNCHANGED <<there_is_a_master, isMaster, master_lock, workerDoneQueue,
                   testDoneQueue, jobOf, n_workers, popped, cands,
                   monitorCurrentBlockHeight, block_height, ncalls, elected,
                   budget, consumed, merged, applied, cancelled>>
    /\ UNCHANGED dataRest
    /\ UNCHANGED modVars

\* line 586
DrainClear586(t) ==
    /\ pc[t] = "m_drain0"
    /\ outstandingTests' = AfterClear(outstandingTests, clear(testDoneQueue))
    /\ consumed' = Taken(clear(testDoneQueue))
    /\ testDoneQueue' = <<>>
    /\ Go(t, "m_drain")
    /\ UNCHANGED <<there_is_a_master, isMaster, master_lock, verifyWorkQueue,
                   workerDoneQueue, jobOf, n_workers, popped, n_indexes,
                   cands, monitorCurrentBlockHeight, block_height, ncalls,
                   elected, budget, merged, applied, cancelled, loop>>
    /\ UNCHANGED dataRest
    /\ UNCHANGED modVars

\* lines 588-590: a token of a test popped, or the loop left
Drain(t) ==
    /\ pc[t] = "m_drain"
    /\ IF DrainContinues(outstandingTests)
       THEN /\ testDoneQueue # <<>>
            /\ testDoneQueue' = pop_front(testDoneQueue)
            /\ outstandingTests' = AfterClear(outstandingTests, 1)
            /\ consumed' = Taken(1)
            /\ Go(t, "m_dchk")
       ELSE /\ Go(t, "m_ret")
            /\ UNCHANGED <<testDoneQueue, outstandingTests, consumed>>
    /\ UNCHANGED <<there_is_a_master, isMaster, master_lock, verifyWorkQueue,
                   workerDoneQueue, jobOf, n_workers, popped, n_indexes,
                   cands, monitorCurrentBlockHeight, block_height, ncalls,
                   elected, budget, merged, applied, cancelled, loop>>
    /\ UNCHANGED dataRest
    /\ UNCHANGED modVars

\* lines 591-593
DrainCheck(t) ==
    /\ pc[t] = "m_dchk"
    /\ IF Superseded(block_height, monitorCurrentBlockHeight)
       THEN /\ outstandingTests' = AfterClear(outstandingTests,
                                              clear(verifyWorkQueue))
            /\ verifyWorkQueue' = <<>>
       ELSE UNCHANGED <<outstandingTests, verifyWorkQueue>>
    /\ Go(t, "m_drain")
    /\ UNCHANGED <<there_is_a_master, isMaster, master_lock, workerDoneQueue,
                   testDoneQueue, jobOf, n_workers, popped, n_indexes, cands,
                   monitorCurrentBlockHeight, block_height, ncalls, elected,
                   budget, consumed, merged, applied, cancelled, loop>>
    /\ UNCHANGED dataRest
    /\ UNCHANGED modVars

\* lines 596-597: miningProcess returns on the master
Returns(t) ==
    /\ pc[t] = "m_ret"
    /\ ncalls' = ncalls + 1
    /\ budget' = 0
    /\ consumed' = 0
    /\ cancelled' = FALSE
    /\ Go(t, "call")
    /\ UNCHANGED <<there_is_a_master, isMaster, master_lock, verifyWorkQueue,
                   workerDoneQueue, testDoneQueue, jobOf, n_workers, popped,
                   outstandingTests, n_indexes, cands,
                   monitorCurrentBlockHeight, block_height, elected, merged,
                   applied, loop>>
    /\ UNCHANGED dataRest
    /\ UNCHANGED modVars

\* verify_thread, line 301
Pop(t) ==
    /\ pc[t] = "w_pop"
    /\ verifyWorkQueue # <<>>
    /\ jobOf' = [jobOf EXCEPT ![t] = front(verifyWorkQueue)]
    /\ verifyWorkQueue' = pop_front(verifyWorkQueue)
    /\ Go(t, "w_run")
    /\ UNCHANGED <<there_is_a_master, isMaster, master_lock, workerDoneQueue,
                   testDoneQueue, n_workers, popped, outstandingTests,
                   n_indexes, cands, monitorCurrentBlockHeight, block_height,
                   ncalls, elected, budget, consumed, merged, applied,
                   cancelled, loop>>
    /\ UNCHANGED dataRest
    /\ UNCHANGED modVars

\* verify_thread, lines 303-358: the job is run and its token pushed
Run(t) ==
    /\ pc[t] = "w_run"
    /\ IF jobOf[t].type \in {"MOD", "SIEVE"}
       THEN /\ Len(workerDoneQueue) < DoneCapacity
            /\ workerDoneQueue' = push_back(workerDoneQueue, 1)
            /\ testDoneQueue' = testDoneQueue
       ELSE /\ Len(testDoneQueue) < DoneCapacity
            /\ testDoneQueue' = push_back(testDoneQueue, 1)
            /\ workerDoneQueue' = workerDoneQueue
    /\ jobOf' = [jobOf EXCEPT ![t] = NoJob]
    /\ Go(t, "w_pop")
    /\ UNCHANGED <<there_is_a_master, isMaster, master_lock, verifyWorkQueue,
                   n_workers, popped, outstandingTests, n_indexes, cands,
                   monitorCurrentBlockHeight, block_height, ncalls, elected,
                   budget, consumed, merged, applied, cancelled, loop>>
    /\ UNCHANGED dataRest
    /\ UNCHANGED modVars

\* monitorCurrentBlockHeight moves on; when that makes it differ from the
\* height of the block the master is in, the verify jobs outstanding are noted
NewHeight ==
    /\ monitorCurrentBlockHeight < MaxHeight
    /\ monitorCurrentBlockHeight' = monitorCurrentBlockHeight + 1
    /\ IF MasterInside /\ block_height = monitorCurrentBlockHeight /\ budget = 0
       THEN budget' = Outstanding + 1 /\ consumed' = 0
       ELSE UNCHANGED <<budget, consumed>>
    /\ UNCHANGED <<pc, there_is_a_master, isMaster, master_lock,
                   verifyWorkQueue, workerDoneQueue, testDoneQueue, jobOf,
                   n_workers, popped, outstandingTests, n_indexes, cands,
                   block_height, ncalls, elected, merged, applied, cancelled,
                   loop>>
    /\ UNCHANGED dataRest
    /\ UNCHANGED modVars

\* the steps of thread t
Step(t) ==
    \/ Call(t) \/ Lock(t) \/ Check(t) \/ SetMaster(t) \/ Unlock(t) \/ Role(t)
    \/ StartBlock(t) \/ PushMod(t) \/ AwaitMod(t) \/ LoopHead(t) \/ ZeroAux(t)
    \/ PushSieve(t) \/ DenseAndClear(t) \/ AwaitSieve(t) \/ Merge(t)
    \/ Apply(t) \/ Scan(t) \/ PushFull(t) \/ ClearAfter(t) \/ CheckHeight(t)
    \/ ClearQueue(t) \/ Partial(t) \/ DrainClear586(t) \/ Drain(t)
    \/ DrainCheck(t) \/ Returns(t) \/ Pop(t) \/ Run(t)

Next == (\E t \in Threads : Step(t)) \/ NewHeight

Spec == DataInit /\ [][Next]_vars

\* every thread that can take a step does in the end
FairSpec == Spec /\ \A t \in Threads : WF_vars(Step(t))

(***************************************************************************)
(* The mod phase of a block with its workers side by side: each runs       *)
(* update_remainders on the range of its job and flushes its offset_stack  *)
(* into the buckets under bucket_lock, entry by entry.                     *)
(***************************************************************************)
\* entriesPerSegment is what miningInit computed for the table, or that
\* divided by up to MaxShrink: the capacity of a table whose buckets the
\* hits of a block fill
MaxShrink == 8

Capacities == {entriesPerSegmentInit \div d : d \in 1..MaxShrink}

\* the master has been elected and is called with a block; the others are
\* in verify_thread
ModSchedInit ==
    /\ pc = [t \in Threads |-> IF t = 1 THEN "m_start" ELSE "w_pop"]
    /\ there_is_a_master = TRUE
    /\ isMaster = [t \in Threads |-> t = 1]
    /\ master_lock = 0
    /\ verifyWorkQueue = <<>>
    /\ workerDoneQueue = <<>>
    /\ testDoneQueue = <<>>
    /\ jobOf = [t \in Threads |-> NoJob]
    /\ n_workers = 0
    /\ popped = 0
    /\ outstandingTests = 0
    /\ n_indexes = 0
    /\ cands = 0
    /\ monitorCurrentBlockHeight = 0
    /\ block_height = 0
    /\ ncalls = 0
    /\ elected = 1
    /\ budget = 0
    /\ consumed = 0
    /\ merged = FALSE
    /\ applied = FALSE
    /\ cancelled = FALSE

ModPhaseInit ==
    \E T \in SieveTargets : \E capacity \in Capacities :
      /\ DataWith(T, "mod", capacity)
      /\ ModSchedInit
      /\ ModInit

\* line 198: the bucket of an index
SegmentOf(index) == index \div riecoin_sieveSize

FreeBad(lock) == TRUE

\* line 195: pthread_mutex_lock returns when no thread holds bucket_lock
Free(lock) == lock = 0

\* miningProcess, lines 424-453: the remainder, the counts reset, the
\* TYPE_MOD jobs pushed
BeginMod(t) ==
    /\ ~exited
    /\ pc[t] = "m_start"
    /\ zRemainderPrimorial' = RemainderPrimorial(zTarget)
    /\ segment_counts' = [k \in Segments |-> 0]
    /\ verifyWorkQueue' = verifyWorkQueue \o ModJobs
    /\ n_workers' = Len(ModJobs)
    /\ popped' = 0
    /\ Go(t, "m_modwait")
    /\ UNCHANGED <<zTarget, offsets, segment_hits, exited, sieve, sieves,
                   phase, modJobs, sieveJobs, denseDone, w, scan, checkQueue,
                   heightChanged, nblocks, lastMod, emitted, completed,
                   verified, submissions, there_is_a_master, isMaster,
                   master_lock, workerDoneQueue, testDoneQueue, jobOf,
                   outstandingTests, n_indexes, cands,
                   monitorCurrentBlockHeight, block_height, ncalls, elected,
                   budget, consumed, merged, applied, cancelled, loop,
                   entriesPerSegment, bucket_lock, offset_stack, written,
                   scOf, table>>

\* update_remainders, lines 222-251: the offsets of the resident primes of
\* the range written; the once-only hits are those the loop pushes on
\* offset_stack, in its order
Remainders(t) ==
    /\ ~exited
    /\ pc[t] = "w_run"
    /\ jobOf[t].type = "MOD"
    /\ offsets' = ResidentOffsets(offsets, Base, jobOf[t].start, jobOf[t].end)
    /\ jobOf' = [jobOf EXCEPT ![t] =
                   [type |-> "MOD", start |-> jobOf[t].start, end |-> jobOf[t].end,
                    todo |-> OnceOnlyStack(Base, jobOf[t].start, 0, jobOf[t].end)]]
    /\ Go(t, "u_fill")
    /\ UNCHANGED <<zTarget, zRemainderPrimorial, segment_counts,
                   segment_hits, exited, sieve, sieves, phase, modJobs,
                   sieveJobs, denseDone, w, scan, checkQueue, heightChanged,
                   nblocks, lastMod, emitted, completed, verified,
                   submissions, there_is_a_master, isMaster, master_lock,
                   verifyWorkQueue, workerDoneQueue, testDoneQueue,
                   n_workers, popped, outstandingTests, n_indexes, cands,
                   monitorCurrentBlockHeight, block_height, ncalls, elected,
                   budget, consumed, merged, applied, cancelled, loop,
                   entriesPerSegment, bucket_lock, offset_stack, written,
                   scOf, table>>

\* lines 243-246, 252-255 and verify_thread, line 305: offset_stack takes
\* hits until it holds OFFSET_STACK_SIZE or none is left; with none to flush
\* the job is done
Fill(t) ==
    /\ ~exited
    /\ pc[t] = "u_fill"
    /\ IF jobOf[t].todo = <<>>
       THEN /\ Len(workerDoneQueue) < DoneCapacity
            /\ workerDoneQueue' = push_back(workerDoneQueue, 1)
            /\ jobOf' = [jobOf EXCEPT ![t] = NoJob]
            /\ offset_stack' = offset_stack
            /\ Go(t, "w_pop")
       ELSE LET n == Min(Len(jobOf[t].todo), OFFSET_STACK_SIZE)
            IN  /\ offset_stack' = [offset_stack EXCEPT
                                      ![t] = SubSeq(jobOf[t].todo, 1, n)]
                /\ jobOf' = [jobOf EXCEPT
                               ![t].todo = SubSeq(@, n + 1, Len(@))]
                /\ workerDoneQueue' = workerDoneQueue
                /\ Go(t, "u_lock")
    /\ UNCHANGED <<zTarget, zRemainderPrimorial, offsets, segment_counts,
                   segment_hits, exited, sieve, sieves, phase, modJobs,
                   sieveJobs, denseDone, w, scan, checkQueue, heightChanged,
                   nblocks, lastMod, emitted, completed, verified,
                   submissions, there_is_a_master, isMaster, master_lock,
                   verifyWorkQueue, testDoneQueue, n_workers, popped,
                   outstandingTests, n_indexes, cands,
                   monitorCurrentBlockHeight, block_height, ncalls, elected,
                   budget, consumed, merged, applied, cancelled, loop,
                   entriesPerSegment, bucket_lock, written, scOf, table>>

\* put_offsets_in_segments, line 195
LockBucket(t) ==
    /\ ~exited
    /\ pc[t] = "u_lock"
    /\ Free(bucket_lock)
    /\ bucket_lock' = t
    /\ Go(t, "u_put")
    /\ UNCHANGED <<zTarget, zRemainderPrimorial, offsets, segment_counts,
                   segment_hits, exited, sieve, sieves, phase, modJobs,
                   sieveJobs, denseDone, w, scan, checkQueue, heightChanged,
                   nblocks, lastMod, emitted, completed, verified,
                   submissions, there_is_a_master, isMaster, master_lock,
                   verifyWorkQueue, workerDoneQueue, testDoneQueue, jobOf,
                   n_workers, popped, outstandingTests, n_indexes, cands,
                   monitorCurrentBlockHeight, block_height, ncalls, elected,
                   budget, consumed, merged, applied, cancelled, loop,
                   entriesPerSegment, offset_stack, written, scOf, table>>

\* put_offsets_in_segments, lines 196-199: the count of the bucket of the
\* next entry of the stack is read
ReadCount(t) ==
    /\ ~exited
    /\ pc[t] = "u_put"
    /\ offset_stack[t] # <<>>
    /\ scOf' = [scOf EXCEPT
                  ![t] = segment_counts[SegmentOf(Head(offset_stack[t]))]]
    /\ Go(t, "u_write")
    /\ UNCHANGED <<zTarget, zRemainderPrimorial, offsets, segment_counts,
                   segment_hits, exited, sieve, sieves, phase, modJobs,
                   sieveJobs, denseDone, w, scan, checkQueue, heightChanged,
                   nblocks, lastMod, emitted, completed, verified,
                   submissions, there_is_a_master, isMaster, master_lock,
                   verifyWorkQueue, workerDoneQueue, testDoneQueue, jobOf,
                   n_workers, popped, outstandingTests, n_indexes, cands,
                   monitorCurrentBlockHeight, block_height, ncalls, elected,
                   budget, consumed, merged, applied, cancelled, loop,
                   entriesPerSegment, bucket_lock, offset_stack, written,
                   table>>

\* put_offsets_in_segments, lines 200-206: the entry is written at the count
\* read and the bucket counted up; the process ends where the source calls
\* exit(-1)
PutOne(t) ==
    /\ ~exited
    /\ pc[t] = "u_write"
    /\ LET index == Head(offset_stack[t])
           segment == SegmentOf(index)
       IN  IF Overflows(scOf[t], entriesPerSegment)
           THEN /\ exited' = TRUE
                /\ UNCHANGED <<segment_hits, segment_counts, offset_stack,
                               written>>
                /\ Go(t, "u_exit")
           ELSE /\ segment_hits' = [segment_hits EXCEPT ![segment][scOf[t]] =
                                      index - (riecoin_sieveSize * segment)]
                /\ segment_counts' = [segment_counts EXCEPT ![segment] = @ + 1]
                /\ exited' = exited
                /\ offset_stack' = [offset_stack EXCEPT ![t] = Tail(@)]
                /\ written' = written \cup {<<segment, scOf[t]>>}
                /\ Go(t, "u_put")
    /\ UNCHANGED <<zTarget, zRemainderPrimorial, offsets, sieve, sieves,
                   phase, modJobs, sieveJobs, denseDone, w, scan, checkQueue,
                   heightChanged, nblocks, lastMod, emitted, completed,
                   verified, submissions, there_is_a_master, isMaster,
                   master_lock, verifyWorkQueue, workerDoneQueue,
                   testDoneQueue, jobOf, n_workers, popped, outstandingTests,
                   n_indexes, cands, monitorCurrentBlockHeight, block_height,
                   ncalls, elected, budget, consumed, merged, applied,
                   cancelled, loop, entriesPerSegment, bucket_lock, scOf,
                   table>>

\* put_offsets_in_segments, line 207
UnlockBucket(t) ==
    /\ ~exited
    /\ pc[t] = "u_put"
    /\ offset_stack[t] = <<>>
    /\ bucket_lock' = 0
    /\ Go(t, "u_fill")
    /\ UNCHANGED <<zTarget, zRemainderPrimorial, offsets, segment_counts,
                   segment_hits, exited, sieve, sieves, phase, modJobs,
                   sieveJobs, denseDone, w, scan, checkQueue, heightChanged,
                   nblocks, lastMod, emitted, completed, verified,
                   submissions, there_is_a_master, isMaster, master_lock,
                   verifyWorkQueue, workerDoneQueue, testDoneQueue, jobOf,
                   n_workers, popped, outstandingTests, n_indexes, cands,
                   monitorCurrentBlockHeight, block_height, ncalls, elected,
                   budget, consumed, merged, applied, cancelled, loop,
                   entriesPerSegment, offset_stack, written, scOf, table>>

\* verify_thread, line 301, while the process runs
Draw(t) == ~exited /\ Pop(t)

\* miningProcess, lines 454-455, while the process runs
AwaitWorkers(t) == ~exited /\ AwaitMod(t)

\* the steps of the mod phase; none is taken once the process has ended
ModNext ==
    \E t \in Threads :
      \/ BeginMod(t) \/ Draw(t) \/ Remainders(t) \/ Fill(t)
      \/ LockBucket(t) \/ ReadCount(t) \/ PutOne(t) \/ UnlockBucket(t)
      \/ AwaitWorkers(t)

SpecMod == ModPhaseInit /\ [][ModNext]_vars

\* C7: under any interleaving of the mod workers, no bucket holds more than
\* entriesPerSegment entries, every write into a bucket is at an index
\* below entriesPerSegment, and where the process ends on a full bucket the
\* entry that did not fit is still on the stack of the worker, unwritten
\* and uncounted.
C7_BucketCapacity ==
    /\ \A k \in Segments : segment_counts[k] <= entriesPerSegment
    /\ \A e \in written : e[2] < entriesPerSegment
    /\ \A k \in Segments : \A sc \in 0..(segment_counts[k] - 1) :
         <<k, sc>> \in written
    /\ \A t \in Threads :
         pc[t] = "u_exit" =>
           /\ exited
           /\ bucket_lock = t
           /\ offset_stack[t] # <<>>
           /\ segment_counts[SegmentOf(Head(offset_stack[t]))]
                = entriesPerSegment
           /\ <<SegmentOf(Head(offset_stack[t])), entriesPerSegment>>
                \notin written

\* a worker ends the process on a full bucket that holds entries of another
\* worker, which waits for bucket_lock with hits of its own
C7_Witness ==
    \E t \in Threads : \E u \in Threads \ {t} :
      /\ pc[t] = "u_exit"
      /\ pc[u] = "u_lock"
      /\ offset_stack[u] # <<>>
      /\ written # {}

\* the thread that is the master, 0 before the election
Master == IF \E t \in Threads : isMaster[t]
          THEN CHOOSE t \in Threads : isMaster[t] ELSE 0

\* since the height moved the master has taken no more tokens of tests than
\* the verify jobs that were outstanding then, plus one
TokenBound == budget # 0 => consumed <= budget

\* C6: with a worker running and fair scheduling, a master that is inside
\* miningProcess while monitorCurrentBlockHeight differs from block.height
\* returns in the end, and from the moment the height moved it takes at most
\* the number of verify jobs outstanding at that moment, plus one, tokens
\* from testDoneQueue.
C6_ReturnsAfterChange ==
    /\ []TokenBound
    /\ (MasterInside /\ block_height # monitorCurrentBlockHeight)
         ~> ~MasterInside

\* the master returns from a block the height left behind, having taken
\* every token the bound allows, one of a job pushed after the move
C6_Witness ==
    /\ Master # 0
    /\ pc[Master] = "m_ret"
    /\ budget > 1
    /\ consumed = budget

\* no verify job is queued, none is drawn and unfinished, and no token of
\* one is left
Quiet ==
    /\ verifyWorkQueue = <<>>
    /\ \A t \in Threads : jobOf[t].type # "CHECK"
    /\ testDoneQueue = <<>>

\* C8: when miningProcess returns on the master, and from then until the
\* next call has written z_verify_target, z_verify_remainderPrimorial and
\* verify_block, verifyWorkQueue is empty, no worker holds a TYPE_CHECK job
\* and testDoneQueue is empty.
C8_QuietAtReturn ==
    \A t \in Threads :
      isMaster[t] /\ pc[t] \in (ElectionPcs \cup {"m_ret", "m_start"}) => Quiet

\* the master returns from a block the height left behind, after it took
\* the token of a verify job, while another thread is a worker
C8_Witness ==
    /\ Master # 0
    /\ pc[Master] = "m_ret"
    /\ budget # 0
    /\ consumed >= 1
    /\ \E t \in Threads : pc[t] = "w_pop" /\ ~isMaster[t]

\* C9: at most one thread has isMaster set, it is the first that set it and
\* it stays the master on later calls; once a thread is past the election
\* a master is being or has been chosen; a thread that is not the master is
\* never in the master's schedule, and is in verify_thread once past the
\* election.
C9_OneMaster ==
    /\ Cardinality({t \in Threads : isMaster[t]}) <= 1
    /\ elected # 0 => isMaster[elected]
    /\ elected # 0 => there_is_a_master
    /\ \A t \in Threads :
         /\ Inside(t) => isMaster[t]
         /\ pc[t] \in WorkerPcs => ~isMaster[t] /\ there_is_a_master
         /\ pc[t] \in {"e_set"} => there_is_a_master /\ master_lock = t

\* the master is in a later call while a thread that lost the election
\* holds the lock and finds there_is_a_master set, and another is a worker
C9_Witness ==
    /\ elected # 0
    /\ ncalls >= 1
    /\ Inside(elected)
    /\ \E t \in Threads : t # elected /\ pc[t] = "e_check"
    /\ \E t \in Threads : t # elected /\ pc[t] \in WorkerPcs

\* the master is in the part of iteration loop that extracts candidates
Extracting(t) == pc[t] \in {"m_scan", "m_full", "m_c2", "m_chk", "m_clearq"}

\* C10: no TYPE_MOD job is unfinished when a TYPE_SIEVE job is pushed or
\* exists; no TYPE_SIEVE job is unfinished when the auxiliary bitmaps are
\* merged, nor while they stay merged, nor when the next iteration is about
\* to zero them; and candidates are extracted only after the merge and the
\* application of the bucket.
C10_PhaseOrder ==
    /\ Unfinished("SIEVE") => ~Unfinished("MOD")
    /\ \A t \in Threads :
         /\ pc[t] \in {"m_loop", "m_zero", "m_sievepush"} => ~Unfinished("MOD")
         /\ pc[t] \in {"m_loop", "m_zero", "m_merge"} => ~Unfinished("SIEVE")
         /\ Extracting(t) => merged /\ applied
    /\ merged => ~Unfinished("SIEVE")

\* the second iteration extracts candidates while a worker still tests
\* those of the first
C10_Witness ==
    /\ Master # 0
    /\ pc[Master] = "m_chk"
    /\ loop = 1
    /\ merged /\ applied
    /\ Running("CHECK") > 0

(***************************************************************************)
(* The two dispatch loops of miningProcess on tables of any size: the      *)
(* sizes miningInit leaves are drawn, and a step is one turn of the loop.  *)
(***************************************************************************)
\* primes of a table
MaxTable == 9
\* dense primes of a table
MaxDense == 2
\* sparse primes of a table
MaxSparse == 7
\* sieveWorkers of a table, which miningInit keeps within 1..8
MaxSieveWorkers == 3
\* the slack of lines 482 and 492, on the scale of the table
MaxSlack == 3
\* turns of a dispatch loop
MaxPushed == 8

\* line 447: base = primeIndex on a table of count primes
ModTable(count, m) ==
    [stage |-> "mod", nPrimes |-> count, primorialNumber |-> m, base |-> m,
     incr |-> ModIncr(count)]

\* lines 476-479: base = n_dense, which_sieve = 0
SieveTable(dense, sparse, workers, slack) ==
    [stage |-> "sieve", n_dense |-> dense, n_sparse |-> sparse,
     sieveWorkers |-> workers, slack |-> slack, base |-> dense,
     incr |-> SieveIncr(sparse, workers), which_sieve |-> 0]

Tables ==
    {ModTable(count, m) : count \in 1..MaxTable, m \in 0..MaxTable}
    \cup {SieveTable(d, s, sw, sl) : d \in 0..MaxDense, s \in 0..MaxSparse,
                                     sw \in 1..MaxSieveWorkers,
                                     sl \in 1..MaxSlack}

\* a table with more primes than the primorial takes, or one of dense and
\* sparse primes, before the first turn of the loop
PartInit ==
    /\ DataWith(0, "idle", entriesPerSegmentInit)
    /\ SchedInit
    /\ BucketInit
    /\ table \in {tb \in Tables :
                    tb.stage = "mod" => tb.nPrimes > tb.primorialNumber}

\* lines 447-453: one turn of the loop that pushes the TYPE_MOD jobs
PartPushMod ==
    /\ table.stage = "mod"
    /\ table.base < table.nPrimes
    /\ n_workers < MaxPushed
    /\ Len(verifyWorkQueue) < VerifyCapacity
    /\ verifyWorkQueue' = push_back(verifyWorkQueue,
                                    ModJobAt(table.base, table.incr, table.nPrimes))
    /\ n_workers' = n_workers + 1
    /\ table' = [table EXCEPT !.base = @ + table.incr]
    /\ UNCHANGED <<zTarget, zRemainderPrimorial, offsets, segment_counts,
                   segment_hits, exited, sieve, sieves, phase, modJobs,
                   sieveJobs, denseDone, w, scan, checkQueue, heightChanged,
                   nblocks, lastMod, emitted, completed, verified,
                   submissions, pc, there_is_a_master, isMaster, master_lock,
                   workerDoneQueue, testDoneQueue, jobOf, popped,
                   outstandingTests, n_indexes, cands,
                   monitorCurrentBlockHeight, block_height, ncalls, elected,
                   budget, consumed, merged, applied, cancelled, loop,
                   entriesPerSegment, bucket_lock, offset_stack, written,
                   scOf>>

\* line 447: base < nPrimes fails and the loop is left
PartModPushed ==
    /\ table.stage = "mod"
    /\ table.base >= table.nPrimes
    /\ table' = [table EXCEPT !.stage = "modpushed"]
    /\ UNCHANGED <<zTarget, zRemainderPrimorial, offsets, segment_counts,
                   segment_hits, exited, sieve, sieves, phase, modJobs,
                   sieveJobs, denseDone, w, scan, checkQueue, heightChanged,
                   nblocks, lastMod, emitted, completed, verified,
                   submissions, pc, there_is_a_master, isMaster, master_lock,
                   verifyWorkQueue, workerDoneQueue, testDoneQueue, jobOf,
                   n_workers, popped, outstandingTests, n_indexes, cands,
                   monitorCurrentBlockHeight, block_height, ncalls, elected,
                   budget, consumed, merged, applied, cancelled, loop,
                   entriesPerSegment, bucket_lock, offset_stack, written,
                   scOf>>

\* lines 479-494: one turn of the loop that pushes the TYPE_SIEVE jobs
PartPushSieve ==
    /\ table.stage = "sieve"
    /\ table.base < table.n_dense + table.n_sparse
    /\ n_workers < MaxPushed
    /\ Len(verifyWorkQueue) < VerifyCapacity
    /\ LET total == table.n_dense + table.n_sparse
           job == SieveJobAt(table.base, table.incr, table.which_sieve, total,
                             table.slack)
       IN  /\ verifyWorkQueue' = DispatchSieve(verifyWorkQueue, job)
           /\ n_workers' = n_workers + 1
           /\ table' = [table EXCEPT
                          !.which_sieve = (@ + 1) % table.sieveWorkers,
                          !.base = IF IsLast(job.end, total, table.slack)
                                   THEN @ ELSE @ + table.incr,
                          !.stage = IF IsLast(job.end, total, table.slack)
                                    THEN "sievepushed" ELSE @]
    /\ UNCHANGED <<zTarget, zRemainderPrimorial, offsets, segment_counts,
                   segment_hits, exited, sieve, sieves, phase, modJobs,
                   sieveJobs, denseDone, w, scan, checkQueue, heightChanged,
                   nblocks, lastMod, emitted, completed, verified,
                   submissions, pc, there_is_a_master, isMaster, master_lock,
                   workerDoneQueue, testDoneQueue, jobOf, popped,
                   outstandingTests, n_indexes, cands,
                   monitorCurrentBlockHeight, block_height, ncalls, elected,
                   budget, consumed, merged, applied, cancelled, loop,
                   entriesPerSegment, bucket_lock, offset_stack, written,
                   scOf>>

\* line 479: base < n_dense + n_sparse fails and the loop is left
PartSievePushed ==
    /\ table.stage = "sieve"
    /\ table.base >= table.n_dense + table.n_sparse
    /\ table' = [table EXCEPT !.stage = "sievepushed"]
    /\ UNCHANGED <<zTarget, zRemainderPrimorial, offsets, segment_counts,
                   segment_hits, exited, sieve, sieves, phase, modJobs,
                   sieveJobs, denseDone, w, scan, checkQueue, heightChanged,
                   nblocks, lastMod, emitted, completed, verified,
                   submissions, pc, there_is_a_master, isMaster, master_lock,
                   verifyWorkQueue, workerDoneQueue, testDoneQueue, jobOf,
                   n_workers, popped, outstandingTests, n_indexes, cands,
                   monitorCurrentBlockHeight, block_height, ncalls, elected,
                   budget, consumed, merged, applied, cancelled, loop,
                   entriesPerSegment, bucket_lock, offset_stack, written,
                   scOf>>

PartNext ==
    \/ PartPushMod \/ PartModPushed \/ PartPushSieve \/ PartSievePushed

SpecPart == PartInit /\ [][PartNext]_vars

\* the jobs in the queue
QueuedJobs == {verifyWorkQueue[x] : x \in DOMAIN verifyWorkQueue}

\* the indexes [start, end) of a job
RangeOf(job) == job.start..(job.end - 1)

\* the ranges of the jobs in the queue are pairwise disjoint
Disjoint ==
    \A x, y \in DOMAIN verifyWorkQueue :
      x # y => RangeOf(verifyWorkQueue[x]) \cap RangeOf(verifyWorkQueue[y]) = {}

\* C11: the TYPE_SIEVE jobs pushed in an iteration have pairwise disjoint
\* ranges that lie in [n_dense, n_dense + n_sparse), so apart from the
\* primes of the dense loop, and once the loop is left cover it; they are
\* at most sieveWorkers and their sieveId are pairwise distinct.
C11_SievePartition ==
    table.stage \in {"sieve", "sievepushed"} =>
      LET total == table.n_dense + table.n_sparse
      IN  /\ Disjoint
          /\ \A job \in QueuedJobs :
               /\ job.type = "SIEVE"
               /\ RangeOf(job) \subseteq table.n_dense..(total - 1)
               /\ RangeOf(job) \cap 0..(table.n_dense - 1) = {}
               /\ job.sieveId \in 0..(table.sieveWorkers - 1)
          /\ Len(verifyWorkQueue) <= table.sieveWorkers
          /\ \A x, y \in DOMAIN verifyWorkQueue :
               x # y => verifyWorkQueue[x].sieveId # verifyWorkQueue[y].sieveId
          /\ table.stage = "sievepushed" =>
               UNION {RangeOf(job) : job \in QueuedJobs}
                 = table.n_dense..(total - 1)

\* the loop is left after as many jobs as there are auxiliary bitmaps, on
\* a table that has dense primes too
C11_Witness ==
    /\ table.stage = "sievepushed"
    /\ table.sieveWorkers >= 2
    /\ table.n_dense >= 1
    /\ Len(verifyWorkQueue) = table.sieveWorkers

\* C12: on every table with more primes than the primorial takes, tables of
\* fewer primes than there are chunks included, the TYPE_MOD jobs pushed
\* have non-empty, pairwise disjoint ranges within [m, nPrimes), so they
\* are no more than nPrimes - m, and once the loop is left they cover
\* [m, nPrimes).
C12_ModPartition ==
    table.stage \in {"mod", "modpushed"} =>
      /\ Disjoint
      /\ \A job \in QueuedJobs :
           /\ job.type = "MOD"
           /\ job.start < job.end
           /\ RangeOf(job) \subseteq table.primorialNumber..(table.nPrimes - 1)
      /\ Len(verifyWorkQueue) <= table.nPrimes - table.primorialNumber
      /\ table.stage = "modpushed" =>
           UNION {RangeOf(job) : job \in QueuedJobs}
             = table.primorialNumber..(table.nPrimes - 1)

\* the same on the tables that have at least as many primes as chunks
C12_ModPartitionOfLargeTables ==
    table.stage \in {"mod", "modpushed"} /\ table.nPrimes >= ModChunks =>
      C12_ModPartition

\* C13: once the master has seen the height differ inside the extraction
\* loop and cleared verifyWorkQueue, no TYPE_CHECK job is in the queue
\* again before miningProcess returns: none is pushed, the job being filled
\* included.
C13_NoPushAfterCancel == cancelled => Queued("CHECK") = 0

\* after line 572 the master is on its way out: the iteration is left, no
\* further one begins, and the queue holds at most the job that was being
\* filled
C13_AbortsAndPushesAtMostOne ==
    cancelled =>
      /\ Superseded(block_height, monitorCurrentBlockHeight)
      /\ pc[Master] \in {"m_partial", "m_loop", "m_drain0", "m_drain",
                         "m_dchk", "m_ret"}
      /\ Len(verifyWorkQueue) <= 1

\* C14: in no iteration is index 0 appended to a TYPE_CHECK job.
C14_BitZeroExcluded == \A e \in emitted : e[2] # 0

\* C15: the remainder miningProcess computes is the least one,
\* 0 <= zRemainderPrimorial < primorial.
C15_RemainderRange ==
    phase \in {"aligned", "updated"} =>
      /\ 0 <= zRemainderPrimorial
      /\ zRemainderPrimorial < primorial

\* what lines 425-430 give: a remainder in [primorial_offset, primorial +
\* primorial_offset)
C15_RemainderShiftedRange ==
    phase \in {"aligned", "updated"} =>
      /\ primorial_offset <= zRemainderPrimorial
      /\ zRemainderPrimorial < primorial + primorial_offset

\* C16: while a TYPE_SIEVE job waits in verifyWorkQueue it is at the front,
\* so the job a worker pops next (front, pop_front) is a TYPE_SIEVE job and
\* no TYPE_CHECK straggler is popped before it.
C16_SievePriority ==
    Queued("SIEVE") > 0 => front(verifyWorkQueue).type = "SIEVE"

\* a worker drew a TYPE_SIEVE job past a TYPE_CHECK job of the iteration
\* before, which is still queued
C16_Witness ==
    /\ Queued("CHECK") > 0
    /\ \E t \in Threads : pc[t] = "w_run" /\ jobOf[t].type = "SIEVE"
    /\ \A k \in DOMAIN verifyWorkQueue :
         verifyWorkQueue[k].type = "CHECK" => verifyWorkQueue[k].loop < loop

(***************************************************************************)
(* The extraction of one iteration on any merged bitmap: the bitmap and    *)
(* the iteration are drawn, the scan of lines 535-584 runs on them, and    *)
(* the height may change at any point of it.                               *)
(***************************************************************************)
\* clear bits of a drawn bitmap
MaxClear == 4

\* the merged bitmaps, as the sets of their set bits
Bitmaps == {Positions \ c : c \in {d \in SUBSET Positions :
                                     Cardinality(d) <= MaxClear}}

\* lines 515-538: the bitmap is merged, the job under construction is empty
\* and tagged with the iteration
ScanInit ==
    /\ entriesPerSegment = entriesPerSegmentInit
    /\ zTarget = 0
    /\ zRemainderPrimorial = RemainderPrimorial(0)
    /\ offsets = [i \in ResidentIdx |-> [f \in Biases |-> 0]]
    /\ segment_counts = [k \in Segments |-> 0]
    /\ segment_hits = [k \in Segments |-> [e \in 0..(entriesPerSegment - 1) |-> 0]]
    /\ exited = FALSE
    /\ sieve \in Bitmaps
    /\ sieves = [id \in 0..(sieveWorkers - 1) |-> {}]
    /\ loop \in 0..(maxiter - 1)
    /\ phase = "extract"
    /\ modJobs = {}
    /\ sieveJobs = {}
    /\ denseDone = TRUE
    /\ w = [loop |-> loop, indexes |-> <<>>]
    /\ scan = 1
    /\ checkQueue = <<>>
    /\ heightChanged = FALSE
    /\ nblocks = 1
    /\ lastMod = <<0, 0>>
    /\ emitted = {}
    /\ completed = {}
    /\ verified = {}
    /\ submissions = {}
    /\ SchedInit
    /\ ModInit

ScanNext == ExtractCandidate \/ EndIteration \/ HeightChange

SpecScan == ScanInit /\ [][ScanNext]_vars

\* the iteration the jobs of checkQueue were extracted in
Iteration == IF phase = "extract" THEN loop ELSE loop - 1

\* the places (job, slot) of the pushed jobs that hold index j
PlacesOf(j) ==
    {pl \in (DOMAIN checkQueue) \X (1..WORK_INDEXES) :
       /\ pl[2] <= Len(checkQueue[pl[1]].indexes)
       /\ checkQueue[pl[1]].indexes[pl[2]] = j}

\* C17: every TYPE_CHECK job pushed holds between 1 and WORK_INDEXES indexes
\* and carries the iteration it was extracted in; at the end of an iteration
\* without a height change every clear bit of the merged bitmap is in exactly
\* one pushed job, no set bit is in any, and the job under construction is
\* empty.
C17_ExtractionBatching ==
    /\ \A k \in DOMAIN checkQueue :
         /\ Len(checkQueue[k].indexes) \in 1..WORK_INDEXES
         /\ checkQueue[k].loop = Iteration
    /\ (phase = "iter" /\ ~heightChanged) =>
         /\ \A j \in Positions :
              Cardinality(PlacesOf(j)) = IF j \in sieve THEN 0 ELSE 1
         /\ w.indexes = <<>>

\* an iteration ended without a height change on a bitmap with clear bits in
\* both words: one full job and the partial one after it
C17_Witness ==
    /\ phase = "iter"
    /\ ~heightChanged
    /\ Len(checkQueue) = 2
    /\ Len(checkQueue[1].indexes) = WORK_INDEXES
    /\ Len(checkQueue[2].indexes) < WORK_INDEXES
    /\ \E j \in Positions \ sieve : j < WordBits
    /\ \E j \in Positions \ sieve : j >= WordBits
    /\ loop = maxiter

\* the master is about to clear verifyWorkQueue (lines 572, 592)
AtQueueClear == \E t \in Threads : pc[t] \in {"m_clearq", "m_dchk"}

\* C18: wherever the master reads outstandingTests it equals the TYPE_CHECK
\* jobs queued plus those being run plus the tokens in testDoneQueue; what
\* the master subtracts from it never exceeds it (no wrap below zero); and a
\* clear() of verifyWorkQueue finds only TYPE_CHECK jobs in it.
C18_AckAccounting ==
    /\ outstandingTests = Outstanding
    /\ Len(testDoneQueue) <= outstandingTests
    /\ AtQueueClear =>
         /\ Len(verifyWorkQueue) <= outstandingTests
         /\ \A k \in DOMAIN verifyWorkQueue : verifyWorkQueue[k].type = "CHECK"

\* the master is about to clear a queue that holds a job while another job
\* is with a worker or has left its token
C18_Witness ==
    /\ \E t \in Threads : pc[t] = "m_clearq"
    /\ Queued("CHECK") > 0
    /\ Running("CHECK") + Len(testDoneQueue) > 0
    /\ outstandingTests = 2

\* the master has popped the token of the last TYPE_MOD job (lines 454-455)
ModPhaseOver == \E t \in Threads : isMaster[t] /\ pc[t] = "m_loop"

\* the pairs (once-only prime index, bias) whose index is x
PairsAt(x) ==
    {pr \in OnceOnlyIdx \X Biases : OffsetIndex(Base, pr[1], pr[2]) = x}

\* the entries of bucket k that hold value v
EntriesAt(k, v) ==
    {e \in 0..(segment_counts[k] - 1) : segment_hits[k][e] = v}

RECURSIVE SumCounts(_)
SumCounts(k) ==
    IF k < 0 THEN 0 ELSE segment_counts[k] + SumCounts(k - 1)

\* the times x stands in the sequence q
Times(q, x) == Cardinality({k \in DOMAIN q : q[k] = x})

\* the once-only hits of each TYPE_MOD job of a block on each target, as
\* update_remainders pushes them
JobHits ==
    [T \in SieveTargets |->
       [job \in SeqRange(ModJobs) |->
          OnceOnlyStack(T + RemainderPrimorial(T), job.start, 0, job.end)]]

HitsOf(job) == JobHits[zTarget][[type |-> "MOD", start |-> job.start,
                                 end |-> job.end]]

\* the once-only hits of a block on each target
BlockHits ==
    [T \in SieveTargets |->
       OnceOnlyStack(T + RemainderPrimorial(T), primorialNumber, 0, nPrimes)]

\* the hits a thread still holds: on its offset_stack, in what is left of
\* its range, or in a job it has drawn and not begun
HeldBy(t) ==
    offset_stack[t]
    \o (IF pc[t] \in {"u_fill", "u_lock", "u_put", "u_write", "u_exit"}
        THEN jobOf[t].todo
        ELSE IF pc[t] = "w_run" /\ jobOf[t].type = "MOD"
        THEN HitsOf(jobOf[t])
        ELSE <<>>)

RECURSIVE HeldUpTo(_)
HeldUpTo(t) == IF t = 0 THEN <<>> ELSE HeldBy(t) \o HeldUpTo(t - 1)

\* the hits of the jobs still queued
RECURSIVE QueuedFrom(_)
QueuedFrom(k) ==
    IF k > Len(verifyWorkQueue) THEN <<>>
    ELSE HitsOf(verifyWorkQueue[k]) \o QueuedFrom(k + 1)

\* the indexes the entries of the buckets stand for, from bucket k on
RECURSIVE PlacedFrom(_)
PlacedFrom(k) ==
    IF k >= maxiter THEN <<>>
    ELSE [e \in 1..segment_counts[k] |->
            (k * riecoin_sieveSize) + segment_hits[k][e - 1]]
         \o PlacedFrom(k + 1)

\* the sequences hold the same values the same number of times
SameBag(p, q) ==
    /\ Len(p) = Len(q)
    /\ \A x \in 0..(max_increments - 1) : Times(p, x) = Times(q, x)

\* the mod jobs of the block have been pushed
ModPushed == \A t \in Threads : pc[t] # "m_start"

\* C19: when the master has popped the last TYPE_MOD token and the process
\* has not ended on a full bucket, bucket x >> sieveBits holds the value
\* x mod sieveSize once for every pair (once-only prime, bias) whose index is
\* x < max_increments and holds nothing else, the counts add up to the
\* number of those pairs, and every offset_stack is empty; until then every
\* such pair is in its bucket or still with the job of its prime.
C19_OnceOnlyHitsPlaced ==
    /\ (ModPushed /\ ~exited) =>
         SameBag(PlacedFrom(0) \o HeldUpTo(NumThreads) \o QueuedFrom(1),
                 BlockHits[zTarget])
    /\ (ModPhaseOver /\ ~exited) =>
         /\ \A k \in Segments : \A v \in Positions :
              Cardinality(EntriesAt(k, v))
                = Cardinality(PairsAt((k * riecoin_sieveSize) + v))
         /\ \A k \in Segments : \A e \in 0..(segment_counts[k] - 1) :
              segment_hits[k][e] < riecoin_sieveSize
         /\ SumCounts(maxiter - 1)
              = Cardinality({pr \in OnceOnlyIdx \X Biases :
                               OffsetIndex(Base, pr[1], pr[2]) < max_increments})
         /\ \A t \in Threads : offset_stack[t] = <<>>

\* the mod phase is over, the two buckets are in use, and one holds the same
\* value twice, from two pairs with the same index
C19_Witness ==
    /\ ModPhaseOver
    /\ ~exited
    /\ \A k \in Segments : segment_counts[k] > 1
    /\ \E k \in Segments : \E v \in Positions :
         Cardinality(EntriesAt(k, v)) > 1

\* the width of an entry of offsets (uint32_t in the source, 3 bits above
\* max_increments as there)
OffsetBits == 8

\* the dense and the sparse prime indexes, in the order of the table
DenseIdx == {i \in ResidentIdx : Prime(i) < denseLimit}
SparseIdx == {i \in ResidentIdx : Prime(i) >= denseLimit}

\* index_f of each resident prime on each target, as update_remainders
\* writes it
IndexTable ==
    [T \in SieveTargets |->
       [i \in ResidentIdx |->
          [f \in Biases |-> OffsetIndex(T + RemainderPrimorial(T), i, f)]]]

\* the smallest x >= 0 with k*sieveSize + x congruent to index_f modulo p
StartOffset(i, f, k) ==
    LET p == Prime(i)
    IN  (IndexTable[zTarget][i][f] + (p - ((k * riecoin_sieveSize) % p))) % p

\* the positions of iteration k that a prime of idx hits
MarkedBy(idx, k) ==
    {j \in Positions : \E i \in idx : \E f \in Biases :
       (j + (Prime(i) - StartOffset(i, f, k))) % Prime(i) = 0}

\* the value at which the walk of an offset stops, before the subtraction
RECURSIVE WalkEnd(_, _)
WalkEnd(off, p) == IF off < riecoin_sieveSize THEN WalkEnd(off + p, p) ELSE off

=============================================================================
